---- MODULE Spec2Model ----
(***************************************************************************)
(* Verification model of the mcp-rag-server repository.                    *)
(*                                                                         *)
(*  Part A  the stdio adapter (mcp_adapter): line reader, handle()         *)
(*  Part B  the HTTP<->stdio bridge (startMcpHttpBridge)                   *)
(*  Part C  the indexer (runIndexer, writeSQLite), the watcher's debounce, *)
(*          the reindex queue and the launcher's ensureIndex               *)
(*  Part D  the readers of the index: get_file and the in-process engine   *)
(*  Part E  WeightManager and the ranker's weights                         *)
(*  Part F  Orchestrator.searchCode: profile, hybrid ranking, packing      *)
(*  Part G  the index command run again and again on an edited tree       *)
(*  Part H  resources/list, resources/read and the file tools on a disk    *)
(*  Part I  the launcher's process: engine, watcher, shutdown              *)
(*  Part J  a run of the index command over a damaged snapshot             *)
(*  Part K  chunkByTokens                                                  *)
(*  Part L  GraphStore.listSymbols and the entries of a full pass          *)
(*  Part M  the adapter with the tools that run a command (spawnSync)      *)
(*  Part N  applyOperations, generate_patch and apply_patch                *)
(*                                                                         *)
(* Specifications: SpecAdapter (a stdio client drives the adapter),        *)
(* SpecBridge (HTTP clients drive the bridge, whose child is the adapter), *)
(* SpecIndex (file changes, watcher, queue, index passes), SpecServe       *)
(* (index passes with get_file and engine searches), SpecFeedback (any run *)
(* of feedback calls), SpecWeights (feedback and searches interleaved),    *)
(* SpecSearch (one search_code call from request to result), SpecRerun     *)
(* (edits and runs of the index command in turn), SpecFiles (resource and  *)
(* file-tool calls), SpecShutdown (the launcher until its exit),           *)
(* SpecRecover (SpecRerun with snapshot files lost between runs),          *)
(* SpecChunk (one chunkByTokens call, step by step), SpecSymbols (index    *)
(* passes over projects and listSymbols calls), SpecTools (a stdio client  *)
(* sends pings and run_tests calls), SpecPatch (gen_patch and apply_patch  *)
(* calls on one file).                                                     *)
(***************************************************************************)
EXTENDS Integers, Sequences, FiniteSets, TLC

\* ------------------------------------------------------------------ bounds
\* lines a stdio client sends in SpecAdapter
MaxLines == 2
\* HTTP posts to the bridge in SpecBridge
MaxPosts == 2
\* elements of one HTTP batch
MaxBatch == 3
\* requests the bridge forwards to its child in all
MaxForwarded == 4

\* ------------------------------------------------------------- variables
VARIABLES
  stdin,      \* adapter: lines written to its stdin, not yet read
  stdout,     \* adapter: response lines written, not yet read by the bridge
  log,        \* history: per line read, the request and the responses it produced
  awaiting,   \* adapter: lines whose handler is suspended in an await
  exited,     \* adapter: process.exit(0) has run
  sent,       \* number of lines the stdio client has sent (SpecAdapter)
  pending,    \* bridge: Map<string, resolver>, as a set of [key, post, idx]
  timers,     \* bridge: armed 30 s timers in arming order, each [key, post, idx]
  posts       \* bridge: HTTP requests, each with its promises and its reply

rpcVars == <<stdin, stdout, log, awaiting, exited, sent, pending, timers, posts>>

VARIABLES
  tree,        \* the files under rootDir: path -> [content, mtimeMs] or Absent
  indexJson,   \* data/index.json: FileMeta[]
  entriesJson, \* data/semantic_entries.json: SemanticEntry[]
  edgesJson,   \* data/edges.json
  graphDb,     \* data/graph.db: [files, symbols, edges] rows in insertion order
  torn,        \* the JSON files a writeFileSync has truncated and not finished
  gen,         \* history: the pass that last wrote each store (0: none)
  passes,      \* runIndexer executions in progress
  nPasses,     \* runIndexer executions started
  nChanges,    \* file changes so far
  ensured,     \* ensureIndex has been called
  watching,    \* startWatcher has run
  useQueue,    \* REDIS_URL was set then: the watcher enqueues jobs for a worker
  queue,       \* reindex jobs waiting in the queue
  timer,       \* debounce: ms until the timer fires, -1 when none is set
  quiet,       \* history: ms since the last watcher event
  fired,       \* history: index jobs started since the last watcher event
  lastPass     \* history: the id of the pass that finished last, 0 before any

idxVars == <<tree, indexJson, entriesJson, edgesJson, graphDb, torn, gen,
             passes, nPasses, nChanges, ensured, watching, useQueue, queue,
             timer, quiet, fired, lastPass>>

VARIABLES
  orchestrator, \* adapter: the Orchestrator singleton, NoOrchestrator until made
  engine,       \* the in-process engine of the launcher, EngineDown until started
  answer        \* history: the last get_file or search answer and what the
                \* data directory held when it was given

srvVars == <<orchestrator, engine, answer>>

VARIABLES
  w,            \* WeightManager.w, in parts of Unit
  weightsJson,  \* weights.json as last saved, NoFile before the first save
  weights,      \* the ranker's module-level weights
  searching,    \* searchCode calls suspended in await fetchEngineResults
  nFeedback,    \* submit_feedback calls counted so far
  ranking       \* history: the weights the last rank_hybrid used, and w then

wVars == <<w, weightsJson, weights, searching, nFeedback, ranking>>

VARIABLES
  search        \* the search_code call explored: its arguments, the
                \* configuration, the engine's reply and what searchCode returns

VARIABLES
  runs          \* history: per run of the indexer command, its mode and the
                \* number of tree changes before it began

VARIABLES
  disk,         \* the files the adapter can reach, by resolved path
  calls         \* history: the resource and file-tool calls answered so far

VARIABLES
  engineProc    \* the launcher's semantic engine: "none", the spawned "child"
                \* or the in-process "server"

VARIABLES
  chunker,      \* a chunkByTokens call: its arguments, idx and the chunks so far
  listing,      \* the last GraphStore.listSymbols call: its argument and its rows
  spawned,      \* adapter: the line whose handler sits in spawnSync, or 0
  patch         \* a file under gen_patch / apply_patch and the last call on it

fnVars == <<chunker, listing, spawned, patch>>

runVars == <<runs, disk, calls, engineProc, fnVars>>

auxVars == <<srvVars, wVars, search, runVars>>

vars == <<rpcVars, idxVars, auxVars>>

\* ============================================================== Part A
\* JSON-RPC ids as they appear on the wire: the id member missing, null,
\* the numbers 1 and 2, and the string "1".
Ids == {"absent", "null", "n1", "n2", "s1"}

\* String(obj.id) / String(p.id)
IdString(id) ==
  CASE id = "absent" -> "undefined"
    [] id = "null"   -> "null"
    [] id = "n1"     -> "1"
    [] id = "n2"     -> "2"
    [] id = "s1"     -> "1"

\* req.id === null || typeof req.id === 'undefined'
IsNotification(req) == req.id \in {"absent", "null"}

\* The methods handle() dispatches and the tools of its switch. Tools that
\* follow the same code path as get_file (a synchronous call inside the try,
\* then ok) are represented by get_file and run_tests.
Methods == {"initialize", "ping", "shutdown", "tools/list", "tools/call",
            "resources/list", "resources/read", "roots/list", "prompts/list",
            "prompts/call"}
ToolNames == {"search_code", "get_file", "run_tests", "langchain_query",
              "submit_feedback", "get_weights", "resources-list",
              "resources-read", "roots-list", "prompts-list", "prompts-call"}
PromptNames == {"refactor", "test", "perf"}

\* Error codes of the adapter
MethodNotFound == -32601
InternalError == -32000
RootNotAllowed == -32001
PolicyDenied == -32002
ReadFailure == -32003

\* A request line: form "json" parses to an object, "garbage" does not parse.
\* msg: the optional msg member ("none", an environment_context user_message
\* with a string message, or one whose message member is missing).
Req(form, id, method, name, pname, msg) ==
  [form |-> form, id |-> id, method |-> method, name |-> name,
   pname |-> pname, msg |-> msg]

Shapes ==
  { <<m, "", "">> : m \in (Methods \ {"tools/call", "prompts/call"})
                          \cup {"initialized", "bogus"} }
  \cup { <<"tools/call", t, "">> :
           t \in (ToolNames \ {"prompts-call"}) \cup {"nosuch"} }
  \cup { <<"tools/call", "prompts-call", p>> : p \in {"refactor", "nosuch"} }
  \cup { <<"prompts/call", "", p>> : p \in {"perf", "nosuch"} }

AdapterReqs ==
  { Req("json", i, s[1], s[2], s[3], "none") : i \in Ids, s \in Shapes }
  \cup { Req("json", i, "", "", "", m) :
           i \in Ids, m \in {"envctx", "envctx_nomsg"} }
  \cup { Req("garbage", "absent", "", "", "", "none") }

\* What the environment decides while a request is handled: whether the
\* called function throws, and for resources whether the path is under a
\* root, allowed by policy and readable.
Envs == {"ok", "throw", "outside_root", "policy_denied", "unreadable"}

Ok(id) == [id |-> id, kind |-> "result", code |-> 0]
Err(id, code) == [id |-> id, kind |-> "error", code |-> code]

NoEffect == [resp |-> <<>>, suspend |-> FALSE, exit |-> FALSE]
Reply(r) == [resp |-> <<r>>, suspend |-> FALSE, exit |-> FALSE]

\* A synchronous call inside handle's try: ok, or the catch's -32000
SyncCall(req, env) ==
  IF env = "throw" THEN Reply(Err(req.id, InternalError)) ELSE Reply(Ok(req.id))

\* resources/read and the resources-read tool
ResourcesRead(req, env) ==
  CASE env = "outside_root"  -> Reply(Err(req.id, RootNotAllowed))
    [] env = "policy_denied" -> Reply(Err(req.id, PolicyDenied))
    [] env = "unreadable"    -> Reply(Err(req.id, ReadFailure))
    [] env = "throw"         -> Reply(Err(req.id, InternalError))
    [] OTHER                 -> Reply(Ok(req.id))

\* resources/list and the resources-list tool
ResourcesList(req, env) ==
  CASE env = "outside_root" -> Reply(Err(req.id, RootNotAllowed))
    [] env = "throw"        -> Reply(Err(req.id, InternalError))
    [] OTHER                -> Reply(Ok(req.id))

\* prompts/call and the prompts-call tool: buildPromptText returns null for
\* a name outside refactor|test|perf
PromptsCall(req, env) ==
  IF env = "throw" THEN Reply(Err(req.id, InternalError))
  ELSE IF req.pname \in PromptNames THEN Reply(Ok(req.id))
  ELSE Reply(Err(req.id, MethodNotFound))

\* The switch of tools/call. search_code and langchain_query await: a throw
\* before the await (getOrchestrator reading index.json) is caught at once,
\* otherwise the handler is suspended until the promise settles.
ToolsCall(req, env) ==
  CASE req.name \in {"search_code", "langchain_query"} ->
         IF env = "throw" THEN Reply(Err(req.id, InternalError))
         ELSE [resp |-> <<>>, suspend |-> TRUE, exit |-> FALSE]
    [] req.name \in {"get_file", "run_tests", "submit_feedback"} ->
         SyncCall(req, env)
    [] req.name \in {"get_weights", "roots-list", "prompts-list"} ->
         Reply(Ok(req.id))
    [] req.name = "resources-list" -> ResourcesList(req, env)
    [] req.name = "resources-read" -> ResourcesRead(req, env)
    [] req.name = "prompts-call"   -> PromptsCall(req, env)
    [] OTHER -> Reply(Err(req.id, MethodNotFound))

\* async function handle(req), up to its first suspension
Handle(req, env) ==
  IF IsNotification(req) THEN NoEffect
  ELSE CASE req.method \in {"initialize", "ping", "tools/list", "roots/list",
                            "prompts/list"} -> Reply(Ok(req.id))
         [] req.method = "shutdown" ->
              [resp |-> <<Ok(req.id)>>, suspend |-> FALSE, exit |-> TRUE]
         [] req.method = "tools/call"     -> ToolsCall(req, env)
         [] req.method = "resources/list" -> ResourcesList(req, env)
         [] req.method = "resources/read" -> ResourcesRead(req, env)
         [] req.method = "prompts/call"   -> PromptsCall(req, env)
         [] OTHER -> Reply(Err(req.id, MethodNotFound))

\* rl.on('line'): JSON.parse, the environment_context shortcut, handle(req).
\* Whatever throws here is caught and only logged to stderr.
OnLine(req, env) ==
  IF req.form = "garbage" THEN NoEffect
  ELSE IF req.msg = "envctx" THEN Reply(Ok(req.id))
  ELSE IF req.msg = "envctx_nomsg" THEN NoEffect
  ELSE Handle(req, env)

\* The adapter reads the next line of its stdin and runs the line handler.
AdapterLine ==
  /\ ~exited
  /\ stdin # <<>>
  /\ \E env \in Envs :
       LET req == Head(stdin)
           eff == OnLine(req, env)
           n   == Len(log) + 1
       IN /\ stdin' = Tail(stdin)
          /\ stdout' = stdout \o eff.resp
          /\ log' = Append(log, [req |-> req, resps |-> eff.resp])
          /\ awaiting' = IF eff.suspend THEN awaiting \cup {n} ELSE awaiting
          /\ exited' = eff.exit
  /\ UNCHANGED <<auxVars, sent, pending, timers, posts, idxVars>>

\* The awaited promise of a suspended handler settles: ok on resolve, the
\* catch's -32000 on reject.
AwaitSettles ==
  /\ ~exited
  /\ \E n \in awaiting, settled \in {"resolve", "reject"} :
       LET id == log[n].req.id
           r  == IF settled = "resolve" THEN Ok(id) ELSE Err(id, InternalError)
       IN /\ stdout' = Append(stdout, r)
          /\ log' = [log EXCEPT ![n].resps = Append(@, r)]
          /\ awaiting' = awaiting \ {n}
  /\ UNCHANGED <<auxVars, stdin, exited, sent, pending, timers, posts, idxVars>>

\* A stdio client writes one line to the adapter's stdin.
ClientLine ==
  /\ sent < MaxLines
  /\ \E req \in AdapterReqs :
       /\ stdin' = Append(stdin, req)
       /\ sent' = sent + 1
  /\ UNCHANGED <<auxVars, stdout, log, awaiting, exited, pending, timers, posts, idxVars>>

AdapterNext == ClientLine \/ AdapterLine \/ AwaitSettles


\* ============================================================== Part B
\* The requests HTTP clients put into their payloads in SpecBridge.
BridgeReqs ==
  { Req("json", "n1", "ping", "", "", "none"),
    Req("json", "s1", "ping", "", "", "none"),
    Req("json", "n2", "tools/call", "search_code", "", "none"),
    Req("json", "absent", "initialized", "", "", "none"),
    Req("json", "absent", "", "", "", "envctx") }

SeqsUpTo(S, n) == UNION { [1..k -> S] : k \in 0..n }

\* A payload is one request object or an array of them.
Payloads ==
  { [isArray |-> FALSE, items |-> <<r>>] : r \in BridgeReqs }
  \cup { [isArray |-> TRUE, items |-> q] : q \in SeqsUpTo(BridgeReqs, MaxBatch) }

NoResp == [id |-> "absent", kind |-> "none", code |-> 0]
NoReply == [status |-> 0, body |-> <<>>, error |-> ""]

\* The promise handleOne returns for one element of the payload
Pending == [st |-> "pending", resp |-> NoResp]
ResolvedUndefined == [st |-> "undefined", resp |-> NoResp]
Resolved(r) == [st |-> "value", resp |-> r]
Rejected == [st |-> "rejected", resp |-> NoResp]

\* pending.set(key, resolver): the entry of that key is replaced
MapSet(map, key, post, idx) ==
  { e \in map : e.key # key } \cup { [key |-> key, post |-> post, idx |-> idx] }

\* pending after payload.map(p => handleOne(p)) ran over items i..Len(items)
RECURSIVE RegisterAll(_, _, _, _)
RegisterAll(map, items, post, i) ==
  IF i > Len(items) THEN map
  ELSE IF IsNotification(items[i]) THEN RegisterAll(map, items, post, i + 1)
  ELSE RegisterAll(MapSet(map, IdString(items[i].id), post, i), items, post, i + 1)

\* the timers handleOne arms, in order
RECURSIVE ArmAll(_, _, _)
ArmAll(items, post, i) ==
  IF i > Len(items) THEN <<>>
  ELSE IF IsNotification(items[i]) THEN ArmAll(items, post, i + 1)
  ELSE <<[key |-> IdString(items[i].id), post |-> post, idx |-> i]>>
         \o ArmAll(items, post, i + 1)

\* responses.filter(r => r !== undefined)
RECURSIVE Filtered(_, _)
Filtered(slots, i) ==
  IF i > Len(slots) THEN <<>>
  ELSE IF slots[i].st = "value" THEN <<slots[i].resp>> \o Filtered(slots, i + 1)
  ELSE Filtered(slots, i + 1)

\* What the request handler writes once its await returns or throws:
\* Promise.all rejects with the first rejection (the catch answers 400),
\* and fulfils when every promise has.
ReplyOf(isArray, slots) ==
  IF \E i \in DOMAIN slots : slots[i].st = "rejected"
    THEN [status |-> 400, body |-> <<>>, error |-> "timeout"]
  ELSE IF \E i \in DOMAIN slots : slots[i].st = "pending" THEN NoReply
  ELSE IF isArray THEN [status |-> 200, body |-> Filtered(slots, 1), error |-> ""]
  ELSE IF slots[1].st = "undefined" THEN [status |-> 204, body |-> <<>>, error |-> ""]
  ELSE [status |-> 200, body |-> <<slots[1].resp>>, error |-> ""]

\* A promise settles once; the reply is written once.
SettleSlot(p, idx, slot) ==
  IF p.slots[idx].st # "pending" THEN p
  ELSE LET slots == [p.slots EXCEPT ![idx] = slot]
       IN [p EXCEPT !.slots = slots,
                    !.reply = IF p.reply.status = 0
                                THEN ReplyOf(p.isArray, slots) ELSE p.reply]

\* req.on('end'): POST /mcp with a JSON body
HttpPost ==
  /\ Len(posts) < MaxPosts
  /\ \E pl \in Payloads :
       /\ Len(stdin) + Len(log) + Len(pl.items) <= MaxForwarded
       /\ LET n     == Len(posts) + 1
              slots == [i \in 1..Len(pl.items) |->
                          IF IsNotification(pl.items[i])
                            THEN ResolvedUndefined ELSE Pending]
          IN /\ pending' = RegisterAll(pending, pl.items, n, 1)
             /\ timers' = timers \o ArmAll(pl.items, n, 1)
             /\ stdin' = stdin \o pl.items
             /\ posts' = Append(posts,
                           [isArray |-> pl.isArray, items |-> pl.items,
                            slots |-> slots,
                            reply |-> ReplyOf(pl.isArray, slots)])
  /\ UNCHANGED <<auxVars, stdout, log, awaiting, exited, sent, idxVars>>

\* rl.on('line') of the bridge: a line of the child's stdout
BridgeLine ==
  /\ stdout # <<>>
  /\ LET obj == Head(stdout)
         hit == { e \in pending : e.key = IdString(obj.id) }
     IN /\ stdout' = Tail(stdout)
        /\ pending' = pending \ hit
        /\ posts' = IF hit = {} THEN posts
                    ELSE LET e == CHOOSE e \in hit : TRUE
                         IN [posts EXCEPT ![e.post] =
                               SettleSlot(@, e.idx, Resolved(obj))]
  /\ UNCHANGED <<auxVars, stdin, log, awaiting, exited, sent, timers, idxVars>>

\* A timer callback that rejects and leaves the map alone
TimeoutKeepsEntry ==
  /\ timers # <<>>
  /\ LET t == Head(timers)
         has == \E e \in pending : e.key = t.key
     IN /\ timers' = Tail(timers)
        /\ pending' = pending
        /\ posts' = IF has
                      THEN [posts EXCEPT ![t.post] = SettleSlot(@, t.idx, Rejected)]
                      ELSE posts
  /\ UNCHANGED <<auxVars, stdin, stdout, log, awaiting, exited, sent, idxVars>>

\* The setTimeout callback of handleOne. All timers run 30 s, so they fire
\* in the order they were armed.
Timeout ==
  /\ timers # <<>>
  /\ LET t == Head(timers)
         has == \E e \in pending : e.key = t.key
     IN /\ timers' = Tail(timers)
        /\ pending' = { e \in pending : e.key # t.key }
        /\ posts' = IF has
                      THEN [posts EXCEPT ![t.post] = SettleSlot(@, t.idx, Rejected)]
                      ELSE posts
  /\ UNCHANGED <<auxVars, stdin, stdout, log, awaiting, exited, sent, idxVars>>

BridgeNext == HttpPost \/ AdapterLine \/ AwaitSettles \/ BridgeLine \/ Timeout


\* ============================================================== Part C
\* Paths are a directory (a sequence of segments), a stem and an extension.
Path(dir, stem, ext) == [dir |-> dir, stem |-> stem, ext |-> ext]

\* rootDir, as an absolute directory
RootDir == <<"ws", "src">>

\* The files of the tree, relative to rootDir: two .ts files that come and
\* go, and a .tsx file that is always there.
FileA == Path(<<>>, "a", "ts")
FileB == Path(<<"lib">>, "b", "ts")
FileC == Path(<<>>, "c", "tsx")
PathOrder == <<FileA, FileB, FileC>>
Mutable == {FileA, FileB}

\* path.resolve(rootDir, rel) / sf.getFilePath()
AbsPath(root, rel) == [rel EXCEPT !.dir = root \o rel.dir]

\* path.relative(rootDir, full).replace(/\\/g, '/'), for a path under rootDir
PathRelative(root, full) ==
  [full EXCEPT !.dir = SubSeq(full.dir, Len(root) + 1, Len(full.dir))]

\* What a file can contain: the declarations ts-morph finds in it and the
\* modules it imports.
Contents == {"fn", "cls", "view"}

Decl(name, kind, startLine, endLine) ==
  [name |-> name, kind |-> kind, startLine |-> startLine, endLine |-> endLine]

DeclsOf(content) ==
  CASE content = "fn"   -> <<Decl("f", "function", 1, 2)>>
    [] content = "cls"  -> <<Decl("K", "class", 1, 4), Decl("K.m", "method", 2, 3)>>
    [] content = "view" -> <<Decl("g", "function", 1, 1)>>
    [] content = "nest" -> <<Decl("N", "class", 1, 6), Decl("N.m", "method", 2, 4),
                             Decl("N.n", "method", 5, 5),
                             Decl("h", "function", 3, 3)>>
    [] content = "dup"  -> <<Decl("p", "function", 1, 3), Decl("h", "function", 2, 2),
                             Decl("q", "function", 4, 6),
                             Decl("h", "function", 5, 5)>>
    [] OTHER            -> <<>>

ImportsOf(content) ==
  CASE content = "cls"  -> {FileB}
    [] content = "view" -> {FileC}
    [] OTHER            -> {}

Absent == [content |-> "", mtimeMs |-> 0]
StaticC == [content |-> "", mtimeMs |-> 1]


\* file changes and index passes explored
MaxChanges == 2
MaxPasses == 2
\* the modification times a file can carry
Mtimes == {1, 2}

\* setTimeout(fn, 500) in debounce
DebounceMs == 500
\* the granularity of time
TickMs == 250

Exists(t, p) == IF p \in Mutable THEN t[p] # Absent ELSE TRUE
FileState(t, p) == IF p \in Mutable THEN t[p] ELSE StaticC

\* project.addSourceFilesAtPaths(['**/*.ts', '!**/*.d.ts']), as absolute paths
TsFiles(t) ==
  LET rels == SelectSeq(PathOrder, LAMBDA p : p.ext = "ts" /\ Exists(t, p))
  IN [i \in 1..Len(rels) |-> AbsPath(RootDir, rels[i])]

\* sf.forEachDescendant(...): the SymbolMeta of one source file
SymbolsOf(fullPath, content) ==
  LET ds == DeclsOf(content)
  IN [i \in 1..Len(ds) |->
        [name |-> ds[i].name, kind |-> ds[i].kind, file |-> fullPath,
         startLine |-> ds[i].startLine, endLine |-> ds[i].endLine]]

\* the FileMeta runIndexer builds for one source file
FileMetaOf(t, fullPath) ==
  LET relativePath == PathRelative(RootDir, fullPath)
      st == FileState(t, relativePath)
  IN [path |-> relativePath, content |-> st.content,
      symbols |-> SymbolsOf(fullPath, st.content), mtimeMs |-> st.mtimeMs]

\* createSemanticEntries(fileMeta)
CreateSemanticEntries(fileMeta) ==
  [i \in 1..Len(fileMeta.symbols) |->
     LET sym == fileMeta.symbols[i]
     IN [id |-> <<fileMeta.path, sym.name>>, file |-> fileMeta.path,
         symbol |-> sym.name, startLine |-> sym.startLine,
         endLine |-> sym.endLine, text |-> fileMeta.content]]

InheritedNone(previousEntries, relativePath) == <<>>

\* prevEntryMap.get(relativePath), through updateEntriesFromPrevious
InheritedEntries(previousEntries, relativePath) ==
  SelectSeq(previousEntries, LAMBDA e : e.file = relativePath)

\* prevFileMap.get(relativePath)?.mtimeMs === stat.mtimeMs
ReusePrevious(mode, previousFiles, fileMeta) ==
  /\ mode = "incremental"
  /\ \E i \in DOMAIN previousFiles :
       /\ previousFiles[i].path = fileMeta.path
       /\ previousFiles[i].mtimeMs = fileMeta.mtimeMs

\* the loop over tsFiles: fileMetas
RECURSIVE ScanFiles(_, _, _)
ScanFiles(t, files, i) ==
  IF i > Len(files) THEN <<>>
  ELSE <<FileMetaOf(t, files[i])>> \o ScanFiles(t, files, i + 1)

\* the loop over tsFiles: semanticEntries
RECURSIVE ScanEntries(_, _, _, _, _)
ScanEntries(mode, previousFiles, previousEntries, fileMetas, i) ==
  IF i > Len(fileMetas) THEN <<>>
  ELSE (IF ReusePrevious(mode, previousFiles, fileMetas[i])
          THEN InheritedEntries(previousEntries, fileMetas[i].path)
          ELSE CreateSemanticEntries(fileMetas[i]))
       \o ScanEntries(mode, previousFiles, previousEntries, fileMetas, i + 1)

Edge(from, to) == [from |-> from, to |-> to]

\* the imports of the files of froms that resolve to a file of targets
RECURSIVE ImportEdges(_, _, _, _)
ImportEdges(t, froms, targets, i) ==
  IF i > Len(froms) THEN <<>>
  ELSE LET from == froms[i]
           tos  == SelectSeq(targets, LAMBDA q :
                     q \in ImportsOf(FileState(t, from).content))
       IN [k \in 1..Len(tos) |-> Edge(from, tos[k])]
            \o ImportEdges(t, froms, targets, i + 1)

\* fromRel !== toRel
NotSelf(e) == e.from # e.to

\* madge(rootDir, {fileExtensions: ts, tsx, js, jsx}) and the loop over
\* result.obj(); nothing when madge throws
MadgeEdges(t, works) ==
  IF works
    THEN LET present == SelectSeq(PathOrder, LAMBDA p : Exists(t, p))
         IN SelectSeq(ImportEdges(t, present, present, 1), NotSelf)
    ELSE <<>>

\* buildEdgesWithTsMorph(project, rootDir), over the source files the
\* project loaded when the pass began
MorphEdges(t) ==
  LET project == SelectSeq(PathOrder, LAMBDA p : p.ext = "ts" /\ Exists(t, p))
  IN SelectSeq(ImportEdges(t, project, project, 1), NotSelf)

\* for (const e of morphEdges) if (!existing.has(...)) edges.push(e)
UnionEdges(edges, morphEdges) ==
  edges \o SelectSeq(morphEdges, LAMBDA e :
             \A i \in DOMAIN edges : edges[i] # e)

\* writeSQLite: the symbol rows, file by file
RECURSIVE SymbolRows(_, _)
SymbolRows(files, i) ==
  IF i > Len(files) THEN <<>>
  ELSE [k \in 1..Len(files[i].symbols) |->
          LET sym == files[i].symbols[k]
          IN [file |-> files[i].path, name |-> sym.name, kind |-> sym.kind,
              startLine |-> sym.startLine, endLine |-> sym.endLine]]
       \o SymbolRows(files, i + 1)

\* An insert that does not look the endpoints up
HasRowsUnchecked(paths, e) == TRUE

\* if (fromRow && toRow) insertEdge.run(...)
HasRows(paths, e) ==
  /\ \E i \in DOMAIN paths : paths[i] = e.from
  /\ \E i \in DOMAIN paths : paths[i] = e.to

\* INSERT OR IGNORE INTO edges, under UNIQUE(from_file, to_file, kind)
RECURSIVE InsertEdges(_, _, _)
InsertEdges(rows, paths, imports) ==
  IF imports = <<>> THEN rows
  ELSE LET e   == Head(imports)
           row == [from |-> e.from, to |-> e.to, kind |-> "import"]
       IN IF HasRows(paths, e) /\ \A i \in DOMAIN rows : rows[i] # row
            THEN InsertEdges(Append(rows, row), paths, Tail(imports))
            ELSE InsertEdges(rows, paths, Tail(imports))

\* INSERT OR IGNORE INTO files(path), under path UNIQUE
RECURSIVE InsertFiles(_, _, _)
InsertFiles(rows, files, i) ==
  IF i > Len(files) THEN rows
  ELSE IF \E k \in DOMAIN rows : rows[k] = files[i].path
    THEN InsertFiles(rows, files, i + 1)
    ELSE InsertFiles(Append(rows, files[i].path), files, i + 1)

\* A writeSQLite that keeps the rows it finds
WriteSQLiteNoDelete(db, files, imports) ==
  [files |-> InsertFiles(db.files, files, 1),
   symbols |-> db.symbols \o SymbolRows(files, 1),
   edges |-> InsertEdges(db.edges, InsertFiles(db.files, files, 1), imports)]

\* writeSQLite(dbPath, files, imports) on the database db: one transaction
\* that clears the three tables and fills them again
WriteSQLite(db, files, imports) ==
  LET paths == InsertFiles(<<>>, files, 1)
  IN [files |-> paths,
      symbols |-> SymbolRows(files, 1),
      edges |-> InsertEdges(<<>>, paths, imports)]

EmptyDb == [files |-> <<>>, symbols |-> <<>>, edges |-> <<>>]
NoGen == [index |-> 0, entries |-> 0, db |-> 0]


\* A pass is inside a synchronous stretch of runIndexer: nothing else of the
\* process runs until it reaches its await.
InSync == \E p \in passes : p.pc \in {"w_index", "w_entries"}

Modes == {"full", "incremental"}

\* runIndexer from its first line to the first writeFileSync: the scan of
\* the tree and the previous snapshot, then index.json is opened for writing
StartPass(by, mode) ==
  LET fileMetas == ScanFiles(tree, TsFiles(tree), 1)
      entries   == ScanEntries(mode, indexJson, entriesJson, fileMetas, 1)
      pass      == [id |-> nPasses + 1, by |-> by, mode |-> mode,
                    pc |-> "w_index", fileMetas |-> fileMetas, entries |-> entries,
                    morph |-> MorphEdges(tree)]
  IN /\ nPasses < MaxPasses
     /\ ~InSync
     /\ passes' = passes \cup {pass}
     /\ nPasses' = nPasses + 1
     /\ torn' = torn \cup {"index.json"}

\* the process that runs pass p is alive: the launcher until process.exit,
\* the queue worker and the index command on their own
InLiveProcess(p) == ~exited \/ p.by \in {"worker", "cli"}

\* fs.writeFileSync(index.json) completes; semantic_entries.json is opened
PassWriteIndex ==
  \E p \in passes :
    /\ InLiveProcess(p)
    /\ p.pc = "w_index"
    /\ indexJson' = p.fileMetas
    /\ gen' = [gen EXCEPT !.index = p.id]
    /\ torn' = (torn \ {"index.json"}) \cup {"semantic_entries.json"}
    /\ passes' = (passes \ {p}) \cup {[p EXCEPT !.pc = "w_entries"]}
    /\ UNCHANGED <<auxVars, rpcVars, tree, entriesJson, edgesJson, graphDb, nPasses, nChanges,
                   ensured, watching, useQueue, queue, timer, quiet, fired, lastPass>>

\* fs.writeFileSync(semantic_entries.json) completes; the pass awaits madge
PassWriteEntries ==
  \E p \in passes :
    /\ InLiveProcess(p)
    /\ p.pc = "w_entries"
    /\ entriesJson' = p.entries
    /\ gen' = [gen EXCEPT !.entries = p.id]
    /\ torn' = torn \ {"semantic_entries.json"}
    /\ passes' = (passes \ {p}) \cup {[p EXCEPT !.pc = "madge"]}
    /\ UNCHANGED <<auxVars, rpcVars, tree, indexJson, edgesJson, graphDb, nPasses, nChanges,
                   ensured, watching, useQueue, queue, timer, quiet, fired, lastPass>>

\* madge settles: the edges are unioned, edges.json and graph.db written
PassFinish ==
  /\ ~InSync
  /\ \E p \in passes, works \in BOOLEAN :
       LET edges == UnionEdges(MadgeEdges(tree, works), p.morph)
       IN /\ InLiveProcess(p)
          /\ p.pc = "madge"
          /\ edgesJson' = edges
          /\ graphDb' = WriteSQLite(graphDb, p.fileMetas, edges)
          /\ gen' = [gen EXCEPT !.db = p.id]
          /\ passes' = passes \ {p}
          /\ lastPass' = p.id
  /\ UNCHANGED <<auxVars, rpcVars, tree, indexJson, entriesJson, torn, nPasses, nChanges, ensured,
                 watching, useQueue, queue, timer, quiet, fired>>

\* ensureIndex(rootDir, dataDir, sqlitePath) of the launcher: with fast start
\* it runs in the background right after the watcher has been started, so
\* before any debounce timer has fired
EnsureIndex ==
  /\ ~exited
  /\ ~ensured
  /\ fired = 0
  /\ nPasses = 0
  /\ ensured' = TRUE
  /\ \E mode \in Modes : StartPass("ensure", mode)
  /\ UNCHANGED <<auxVars, rpcVars, tree, indexJson, entriesJson, edgesJson, graphDb, gen, nChanges,
                 watching, useQueue, queue, timer, quiet, fired, lastPass>>

\* A debounce that leaves a timer that is already set alone
ScheduleKeepsTimer(t) == IF t >= 0 THEN t ELSE DebounceMs

\* The function debounce returns: clearTimeout(t); t = setTimeout(fn, ms).
\* Its value is the time left on the timer it has set.
Schedule(t) == DebounceMs

\* startWatcher(rootDir, outDir, sqlitePath): the watcher is set up, with a
\* queue when REDIS_URL is set. The launcher calls it before ensureIndex
\* (fast start) or after ensureIndex has finished.
StartWatcher ==
  /\ ~exited
  /\ ~watching
  /\ passes = {}
  /\ watching' = TRUE
  /\ useQueue' \in BOOLEAN
  /\ UNCHANGED <<auxVars, rpcVars, tree, indexJson, entriesJson, edgesJson, graphDb, torn, gen,
                 passes, nPasses, nChanges, ensured, queue, timer, quiet, fired,
                 lastPass>>

\* A file is added, changed or unlinked and the watcher calls schedule().
\* A timer that is due runs first.
FsChange ==
  /\ ~exited
  /\ watching
  /\ nChanges < MaxChanges
  /\ ~InSync
  /\ timer # 0
  /\ \E p \in Mutable :
       \/ /\ tree[p] = Absent
          /\ \E c \in Contents, m \in Mtimes :
               tree' = [tree EXCEPT ![p] = [content |-> c, mtimeMs |-> m]]
       \/ /\ tree[p] # Absent
          /\ \E c \in Contents, m \in Mtimes \ {tree[p].mtimeMs} :
               tree' = [tree EXCEPT ![p] = [content |-> c, mtimeMs |-> m]]
       \/ /\ tree[p] # Absent
          /\ tree' = [tree EXCEPT ![p] = Absent]
  /\ nChanges' = nChanges + 1
  /\ timer' = Schedule(timer)
  /\ quiet' = 0
  /\ fired' = 0
  /\ UNCHANGED <<auxVars, rpcVars, indexJson, entriesJson, edgesJson, graphDb, torn, gen, passes,
                 nPasses, ensured, watching, useQueue, queue, lastPass>>

Min(a, b) == IF a < b THEN a ELSE b

\* Time passes, up to the moment the timer is due.
Tick ==
  /\ ~exited
  /\ ~InSync
  /\ timer # 0
  /\ nChanges > 0
  /\ LET d == IF timer > 0 THEN Min(timer, TickMs) ELSE TickMs
     IN /\ timer' = IF timer > 0 THEN timer - d ELSE timer
        /\ quiet' = Min(quiet + d, DebounceMs + TickMs)
  /\ UNCHANGED <<auxVars, rpcVars, tree, indexJson, entriesJson, edgesJson, graphDb, torn, gen,
                 passes, nPasses, nChanges, ensured, watching, useQueue, queue, fired,
                 lastPass>>

\* The debounced callback: enqueueReindex when a queue is configured, else
\* runIndexer
TimerFire ==
  /\ ~exited
  /\ timer = 0
  /\ timer' = -1
  /\ fired' = fired + 1
  /\ \/ /\ useQueue
        /\ ~InSync
        /\ queue + nPasses < MaxPasses
        /\ queue' = queue + 1
        /\ UNCHANGED <<auxVars, passes, nPasses, torn>>
     \/ /\ ~useQueue
        /\ \E mode \in Modes : StartPass("watcher", mode)
        /\ UNCHANGED queue
  /\ UNCHANGED <<auxVars, rpcVars, tree, indexJson, entriesJson, edgesJson, graphDb, gen, nChanges,
                 ensured, watching, useQueue, quiet, lastPass>>

\* The queue's worker takes the next reindex job; it runs one job at a time
WorkerJob ==
  /\ queue > 0
  /\ \A p \in passes : p.by # "worker"
  /\ queue' = queue - 1
  /\ \E mode \in Modes : StartPass("worker", mode)
  /\ UNCHANGED <<auxVars, rpcVars, tree, indexJson, entriesJson, edgesJson, graphDb, gen, nChanges,
                 ensured, watching, useQueue, timer, quiet, fired, lastPass>>

IndexNext ==
  \/ StartWatcher \/ FsChange \/ Tick \/ TimerFire \/ WorkerJob \/ EnsureIndex
  \/ PassWriteIndex \/ PassWriteEntries \/ PassFinish

\* ============================================================== Part D
\* The readers of the data directory: the adapter's Orchestrator and the
\* launcher's in-process engine. Both run in the process of the watcher.

NoOrchestrator == [made |-> FALSE, fileIndex |-> <<>>]
EngineDown == [up |-> FALSE, entries |-> <<>>]
NoAnswer == [kind |-> "none", got |-> <<>>, disk |-> <<>>, afterPass |-> FALSE]

\* Orchestrator.loadIndex(dataDir), called by the constructor only: the
\* FileMeta of index.json by path
LoadIndex(json) == [i \in DOMAIN json |-> [path |-> json[i].path, content |-> json[i].content]]

\* getOrchestrator(): the singleton, constructed on first use
GetOrchestrator(o, json) ==
  IF o.made THEN o ELSE [made |-> TRUE, fileIndex |-> LoadIndex(json)]

\* Orchestrator.getFile(filePath): the content held for the path, or a throw
GetFileOf(fileIndex, filePath) ==
  LET hits == SelectSeq(fileIndex, LAMBDA f : f.path = filePath)
  IN IF hits = <<>> THEN <<"throw">> ELSE <<hits[Len(hits)].content>>

\* no pass is writing or pending, and one has completed
PassCompleted == passes = {} /\ lastPass # 0

\* tools/call get_file
GetFile ==
  /\ ~InSync
  /\ \E filePath \in Mutable :
       LET o == GetOrchestrator(orchestrator, indexJson)
       IN /\ orchestrator' = o
          /\ answer' = [kind |-> "get_file",
                        got |-> GetFileOf(o.fileIndex, filePath),
                        disk |-> GetFileOf(LoadIndex(indexJson), filePath),
                        afterPass |-> PassCompleted]
  /\ UNCHANGED <<rpcVars, idxVars, runVars, search, wVars, engine>>

\* the texts the engine scores for a /search request
EngineTexts(entries) == [i \in DOMAIN entries |-> entries[i].text]

\* startLocalNodeEngine(dataDir, port): semantic_entries.json is read once
StartLocalNodeEngine ==
  /\ ~InSync
  /\ ~engine.up
  /\ engine' = [up |-> TRUE, entries |-> entriesJson]
  /\ UNCHANGED <<rpcVars, idxVars, runVars, search, wVars, orchestrator, answer>>

\* GET /search of the in-process engine, as called by searchCode
EngineSearch ==
  /\ ~InSync
  /\ engine.up
  /\ answer' = [kind |-> "search",
                got |-> EngineTexts(engine.entries),
                disk |-> EngineTexts(entriesJson),
                afterPass |-> PassCompleted]
  /\ UNCHANGED <<rpcVars, idxVars, runVars, search, wVars, orchestrator, engine>>

ServeNext ==
  \/ StartWatcher \/ FsChange \/ Tick \/ TimerFire \/ EnsureIndex
  \/ PassWriteIndex \/ PassWriteEntries \/ PassFinish
  \/ StartLocalNodeEngine \/ GetFile \/ EngineSearch

\* ============================================================== Part E
\* WeightManager and the ranker's weights. A number of the program is held
\* as a whole count of parts of 1/Unit; a quotient is rounded to the
\* nearest part, as a double is rounded to the nearest double.
Unit == 1000

\* feedback calls in SpecWeights
MaxFeedback == 4

Weights(semantic, lexical, graph, reranker) ==
  [semantic |-> semantic, lexical |-> lexical, graph |-> graph,
   reranker |-> reranker]

\* defaultWeights of weights.ts and the initial weights of ranker.ts
DefaultWeights == Weights((60 * Unit) \div 100, (25 * Unit) \div 100,
                          (10 * Unit) \div 100, (5 * Unit) \div 100)

\* defaultConfig.ranking.weights of config.ts
ConfigWeights == Weights((60 * Unit) \div 100, (20 * Unit) \div 100,
                         (10 * Unit) \div 100, (10 * Unit) \div 100)

Max(a, b) == IF a > b THEN a ELSE b

ClampNone(x) == x

\* clamp01(x)
Clamp01(x) == Max(0, Min(Unit, x))

Sum(x) == x.semantic + x.lexical + x.graph + x.reranker

\* x / s of two numbers, rounded to the nearest part; 0 / 0 is NaN, held
\* as -1
Quot(x, s) == IF s = 0 THEN -1 ELSE (2 * x * Unit + s) \div (2 * s)

\* the four components divided by s
DivideBy(x, s) ==
  Weights(Quot(x.semantic, s), Quot(x.lexical, s), Quot(x.graph, s),
          Quot(x.reranker, s))

Kinds == {"up", "down"}

\* WeightManager.feedback(kind), up to save()
Feedback(x, kind) ==
  LET delta    == IF kind = "up" THEN Unit \div 100 ELSE -(Unit \div 100)
      semantic == Clamp01(x.semantic + delta)
      lexical  == Clamp01(x.lexical +
                    (IF kind = "up" THEN -(delta \div 2) ELSE delta \div 2))
      nudged   == [x EXCEPT !.semantic = semantic, !.lexical = lexical]
  IN DivideBy(nudged, Sum(nudged))

\* set_weights(x) of ranker.ts on the current weights cur
SetWeights(cur, x) == IF Sum(x) <= 0 THEN cur ELSE DivideBy(x, Sum(x))

NoFile == <<>>
NoRanking == [ranked |-> FALSE, used |-> DefaultWeights, held |-> DefaultWeights]

\* submit_feedback: wm.feedback(kind), which ends in save(), and then
\* set_weights(wm.get())
Submit(kind) ==
  /\ w' = Feedback(w, kind)
  /\ weightsJson' = <<Feedback(w, kind)>>
  /\ weights' = SetWeights(weights, Feedback(w, kind))

\* tools/call submit_feedback, counted
SubmitFeedback ==
  /\ nFeedback < MaxFeedback
  /\ \E kind \in Kinds : Submit(kind)
  /\ nFeedback' = nFeedback + 1
  /\ UNCHANGED <<rpcVars, idxVars, runVars, search, srvVars, searching, ranking>>

\* tools/call submit_feedback, any number of times
FeedbackRun ==
  /\ \E kind \in Kinds : Submit(kind)
  /\ UNCHANGED <<rpcVars, idxVars, runVars, search, srvVars, searching, nFeedback,
                 ranking>>

\* tools/call get_weights: wm.get() is a copy, nothing changes
GetWeights ==
  /\ w' = Weights(w.semantic, w.lexical, w.graph, w.reranker)
  /\ UNCHANGED <<rpcVars, idxVars, runVars, search, srvVars, weightsJson, weights, searching,
                 nFeedback, ranking>>

\* tools/call search_code up to await fetchEngineResults: getOrchestrator()
\* constructs the Orchestrator on first use, and the constructor calls
\* set_weights(config.ranking.weights)
SearchStart ==
  /\ searching = 0
  /\ searching' = 1
  /\ orchestrator' = GetOrchestrator(orchestrator, indexJson)
  /\ weights' = IF orchestrator.made THEN weights
                ELSE SetWeights(weights, ConfigWeights)
  /\ UNCHANGED <<rpcVars, idxVars, runVars, search, engine, answer, w, weightsJson, nFeedback,
                 ranking>>

\* searchCode after the engine has answered: rank_hybrid reads the
\* module-level weights
SearchRank ==
  /\ searching > 0
  /\ searching' = searching - 1
  /\ ranking' = [ranked |-> TRUE, used |-> weights, held |-> w]
  /\ UNCHANGED <<rpcVars, idxVars, runVars, search, srvVars, w, weightsJson, weights,
                 nFeedback>>

WeightsNext == SubmitFeedback \/ GetWeights \/ SearchStart \/ SearchRank

FeedbackNext == FeedbackRun \/ GetWeights

\* ============================================================== Part F
\* Orchestrator.searchCode: profileContext, rank_hybrid, pack_tokens.
\* An engine score is a whole count of tenths; a hybrid score is the exact
\* numerator over the denominator ScoreUnit * Unit * tokens * maxDeg that
\* all candidates of one call share, so scores compare as the reals do.
ScoreUnit == 10

\* x.toLowerCase() on the words used here
Lower(word) == IF word = "Gamma" THEN "gamma" ELSE word

\* snippetLower.includes(t): a token has no non-word character, so it is a
\* substring of one lower-cased word of the snippet
Includes(snippet, t) ==
  \E i \in DOMAIN snippet :
    Lower(snippet[i]) = t \/ <<t, Lower(snippet[i])>> = <<"gam", "gamma">>

\* new Set(a.toLowerCase().split(/\W+/).filter(Boolean))
TokenSet(snippet) == {Lower(snippet[i]) : i \in DOMAIN snippet}

Candidate(file, score, snippet, chars) ==
  [file |-> file, score |-> score, snippet |-> snippet, chars |-> chars]

\* the candidates the engine behind ENGINE_URL answers with; chars is
\* snippet.length
Pool ==
  {Candidate("a.ts", 6, <<"alpha", "beta">>, 10),
   Candidate("b.ts", 5, <<"beta", "gamma">>, 10),
   Candidate("a.ts", 5, <<"Gamma">>, 5),
   Candidate("c.ts", 6, <<"alpha">>, 2000),
   Candidate("b.ts", 4, <<"beta">>, 6000)}

\* the candidates of the launcher's in-process engine, whose score is the
\* number of query tokens found
InProcessPool == {Candidate("c.ts", 30, <<"beta", "beta">>, 9)}

\* engine replies
MaxResults == 3

\* parsed.results of the engine's reply: up to MaxResults distinct candidates
\* of one engine in any order, each carrying its position as the object's
\* identity
EngineResults ==
  LET Distinct(r) == \A i, j \in DOMAIN r : i # j => r[i] # r[j]
      Lists == UNION {[1 .. n -> Pool] \cup [1 .. n -> InProcessPool] :
                        n \in 0 .. MaxResults}
  IN {[i \in DOMAIN r |->
        [id |-> i, file |-> r[i].file, score |-> r[i].score,
         snippet |-> r[i].snippet, chars |-> r[i].chars,
         rerankerScore |-> -1]] : r \in {l \in Lists : Distinct(l)}}

\* the queries, as their words
Queries == {<<>>, <<"beta">>, <<"alpha", "gam">>, <<"test", "beta">>,
            <<"docs", "test">>, <<"refactor">>, <<"graph", "beta">>,
            <<"slow">>}

\* the requested top_k values
TopKs == {-1, 0, 1, 2, 3, 9}

\* KEYWORDS, in order, each with the words of Queries its patterns match
Keywords ==
  << [intent |-> "refactor", words |-> {"refactor"}, budget |-> 1400, topK |-> 8],
     [intent |-> "dataflow", words |-> {"graph"}, budget |-> 1300, topK |-> 7],
     [intent |-> "test", words |-> {"test"}, budget |-> 900, topK |-> 6],
     [intent |-> "performance", words |-> {"slow"}, budget |-> 1100, topK |-> 7],
     [intent |-> "docs", words |-> {"docs"}, budget |-> 700, topK |-> 5] >>

\* a classification by the last pattern group that matches
ProfileContextLast(query, requestedTopK) ==
  LET Hit(c) == \E i \in DOMAIN query : query[i] \in c.words
      hits == {n \in DOMAIN Keywords : Hit(Keywords[n])}
      last == CHOOSE n \in hits : \A m \in hits : n >= m
      OrElse(x, y) == IF x = 0 THEN y ELSE x
  IN IF hits # {}
       THEN [intent |-> Keywords[last].intent,
             tokenBudget |-> Keywords[last].budget,
             requestedTopK |-> requestedTopK,
             effectiveTopK |->
               Max(1, Min(Keywords[last].topK,
                          OrElse(requestedTopK, Keywords[last].topK)))]
       ELSE [intent |-> "general", tokenBudget |-> 600,
             requestedTopK |-> requestedTopK,
             effectiveTopK |-> Max(1, Min(OrElse(requestedTopK, 5), 5))]

\* profileContext(query, requestedTopK)
ProfileContext(query, requestedTopK) ==
  LET Hit(c) == \E i \in DOMAIN query : query[i] \in c.words
      hits == {n \in DOMAIN Keywords : Hit(Keywords[n])}
      first == CHOOSE n \in hits : \A m \in hits : n <= m
      OrElse(x, y) == IF x = 0 THEN y ELSE x
  IN IF hits # {}
       THEN [intent |-> Keywords[first].intent,
             tokenBudget |-> Keywords[first].budget,
             requestedTopK |-> requestedTopK,
             effectiveTopK |->
               Max(1, Min(Keywords[first].topK,
                          OrElse(requestedTopK, Keywords[first].topK)))]
       ELSE [intent |-> "general", tokenBudget |-> 600,
             requestedTopK |-> requestedTopK,
             effectiveTopK |-> Max(1, Min(OrElse(requestedTopK, 5), 5))]

\* GraphStore.degree(file) of the graph the Orchestrator was given
FileDegree(file) == CASE file = "a.ts" -> 1 [] file = "b.ts" -> 2 [] OTHER -> 0

SortNone(results) == results

\* results.sort((a, b) => b.score - a.score), a stable sort
RECURSIVE SortByScore(_)
SortByScore(results) ==
  IF results = <<>> THEN <<>>
  ELSE LET r == results[Len(results)]
           sorted == SortByScore(SubSeq(results, 1, Len(results) - 1))
           before == SelectSeq(sorted, LAMBDA x : x.score >= r.score)
           after == SelectSeq(sorted, LAMBDA x : x.score < r.score)
       IN before \o <<r>> \o after

\* the denominator of the scores of one rank_hybrid call
ScoreScale(results, query, hasGraph) ==
  LET degs == {FileDegree(results[i].file) : i \in DOMAIN results} \cup {1}
      maxDeg == IF hasGraph THEN CHOOSE d \in degs : \A e \in degs : e <= d
                ELSE 1
  IN [tokens |-> Max(1, Len(query)), maxDeg |-> maxDeg,
      scale |-> ScoreUnit * Unit * Max(1, Len(query)) * maxDeg]

\* rank_hybrid(results, query, fileDegree) under the ranker's weights wts
RankHybrid(results, query, hasGraph, wts) ==
  LET tokens == [i \in DOMAIN query |-> Lower(query[i])]
      sc == ScoreScale(results, query, hasGraph)
      Scored(r) ==
        LET hits == Cardinality({i \in DOMAIN tokens :
                                  Includes(r.snippet, tokens[i])})
            reranker == IF r.rerankerScore = -1 THEN r.score
                        ELSE r.rerankerScore
        IN [r EXCEPT
             !.score = r.score * wts.semantic * sc.tokens * sc.maxDeg
               + (IF Len(tokens) > 0
                    THEN hits * ScoreUnit * wts.lexical * sc.maxDeg ELSE 0)
               + (IF hasGraph
                    THEN FileDegree(r.file) * ScoreUnit * wts.graph * sc.tokens
                    ELSE 0)
               + reranker * wts.reranker * sc.tokens * sc.maxDeg,
             !.rerankerScore = reranker]
  IN SortByScore([i \in DOMAIN results |-> Scored(results[i])])

\* An estimate that takes every snippet for one token
TokenEstimateFlat(chars, charsPerToken) == 1

\* tokenEstimate(text, charsPerToken)
TokenEstimate(chars, charsPerToken) ==
  Max(1, (chars + charsPerToken - 1) \div charsPerToken)

\* similarity(a, b) as the pair <<intersection, union>>
Similarity(a, b) ==
  <<Cardinality(TokenSet(a) \cap TokenSet(b)),
    Max(1, Cardinality(TokenSet(a) \cup TokenSet(b)))>>

\* pack_tokens without MMR: one result per file first, then whatever fits
PackGreedy(results, budgetTokens, charsPerToken) ==
  LET Cost(r) == TokenEstimate(r.chars, charsPerToken)
      Files(sel) == {sel[i].file : i \in DOMAIN sel}
      Chosen(sel) == {sel[i].id : i \in DOMAIN sel}
      RECURSIVE First(_, _, _)
      First(i, sel, used) ==
        IF i > Len(results) THEN [selected |-> sel, used |-> used]
        ELSE IF used + Cost(results[i]) > budgetTokens
                \/ results[i].file \in Files(sel)
          THEN First(i + 1, sel, used)
          ELSE First(i + 1, Append(sel, results[i]), used + Cost(results[i]))
      RECURSIVE Fill(_, _, _)
      Fill(i, sel, used) ==
        IF i > Len(results) THEN sel
        ELSE IF results[i].id \in Chosen(sel)
                \/ used + Cost(results[i]) > budgetTokens
          THEN Fill(i + 1, sel, used)
          ELSE Fill(i + 1, Append(sel, results[i]), used + Cost(results[i]))
      one == First(1, <<>>, 0)
  IN IF one.used < budgetTokens THEN Fill(1, one.selected, one.used)
     ELSE one.selected

\* pack_tokens with MMR; lambda in tenths, scale the scores' denominator
PackMMR(results, budgetTokens, charsPerToken, lambda, scale) ==
  LET Worse(x, y) == x[1] * y[2] < y[1] * x[2]
      Redundancy(c, chosen) ==
        LET sims == {Similarity(c.snippet, chosen[i].snippet) :
                       i \in DOMAIN chosen}
        IN IF chosen = <<>> THEN <<0, 1>>
           ELSE CHOOSE x \in sims : \A y \in sims : ~Worse(x, y)
      \* mmrScore * 10 * scale as <<numerator, denominator>>
      MmrScore(c, chosen) ==
        LET red == Redundancy(c, chosen)
        IN <<lambda * c.score * red[2] - (10 - lambda) * red[1] * scale,
             red[2]>>
      BestIdx(remaining, chosen) ==
        CHOOSE i \in DOMAIN remaining :
          /\ \A j \in DOMAIN remaining :
               ~Worse(MmrScore(remaining[i], chosen),
                      MmrScore(remaining[j], chosen))
          /\ \A j \in 1 .. i - 1 :
               Worse(MmrScore(remaining[j], chosen),
                     MmrScore(remaining[i], chosen))
      RECURSIVE Loop(_, _, _)
      Loop(remaining, chosen, budget) ==
        IF remaining = <<>> \/ budget <= 0 THEN chosen
        ELSE LET b == BestIdx(remaining, chosen)
                 picked == remaining[b]
                 rest == SubSeq(remaining, 1, b - 1)
                           \o SubSeq(remaining, b + 1, Len(remaining))
                 cost == TokenEstimate(picked.chars, charsPerToken)
             IN IF cost > budget THEN Loop(rest, chosen, budget)
                ELSE Loop(rest, Append(chosen, picked), budget - cost)
  IN Loop(results, <<>>, budgetTokens)

\* pack_tokens(results, budgetTokens, options)
PackTokens(results, budgetTokens, options, scale) ==
  IF options.useMMR
    THEN PackMMR(results, budgetTokens, options.charsPerToken,
                 options.mmrLambda, scale)
    ELSE PackGreedy(results, budgetTokens, options.charsPerToken)

\* defaultConfig, and what a configuration file may set instead
Configs ==
  [weights : {ConfigWeights, Weights(Unit, 0, 0, 0), Weights(0, Unit, 0, 0),
              Weights(6, 3, 1, 0)},
   useMMR : BOOLEAN, mmrLambda : {3}, charsPerToken : {4}, hasGraph : BOOLEAN]
    \cup
  [weights : {ConfigWeights, Weights(Unit, 0, 0, 0), Weights(0, Unit, 0, 0),
              Weights(6, 3, 1, 0)},
   useMMR : {TRUE}, mmrLambda : {0, 9}, charsPerToken : {4},
   hasGraph : BOOLEAN]

\* rerankIfEnabled: no reranker or a failed one leaves the results as they
\* are; "inverse" is a reranker that scores each result 1 - score
RerankIfEnabled(initial, reranker) ==
  IF reranker = "off" THEN initial
  ELSE [i \in DOMAIN initial |->
         [initial[i] EXCEPT !.rerankerScore = ScoreUnit - initial[i].score]]

NoSearch ==
  [state |-> "idle", q |-> <<>>, topK |-> 0, config |-> <<>>,
   engine |-> "none", results |-> <<>>, profile |-> <<>>, weights |-> <<>>,
   ranked |-> <<>>, packed |-> <<>>, curated |-> <<>>]

\* tools/call search_code {q, top_k} up to await fetchEngineResults; the
\* first call constructs the Orchestrator, which loads the configuration
\* and sets the ranker's weights from it
SearchCode ==
  /\ search.state = "idle"
  /\ \E q \in Queries, topK \in TopKs, config \in Configs :
       /\ search' = [search EXCEPT !.state = "awaiting", !.q = q,
                                   !.topK = topK, !.config = config,
                                   !.engine = "pending"]
       /\ weights' = SetWeights(weights, config.weights)
  /\ orchestrator' = GetOrchestrator(orchestrator, indexJson)
  /\ UNCHANGED <<rpcVars, idxVars, runVars, engine, answer, w, weightsJson, searching,
                 nFeedback, ranking>>

FallbackNone(packed, ranked, effectiveTopK) == packed

\* if (!curated.length) curated = ranked.slice(0, Math.max(1, effectiveTopK))
Fallback(packed, ranked, effectiveTopK) ==
  IF packed = <<>>
    THEN SubSeq(ranked, 1, Min(Len(ranked), Max(1, effectiveTopK)))
    ELSE packed

TruncateNone(curated, effectiveTopK) == curated

\* if (curated.length > effectiveTopK) curated = curated.slice(0, effectiveTopK)
Truncate(curated, effectiveTopK) ==
  IF Len(curated) > effectiveTopK THEN SubSeq(curated, 1, effectiveTopK)
  ELSE curated

\* searchCode(query, topK) once fetchEngineResults has resolved
SearchCodeOf(s, engineResults, reranker, wts) ==
  LET profile == ProfileContext(s.q, s.topK)
      withReranker == RerankIfEnabled(engineResults, reranker)
      ranked == RankHybrid(withReranker, s.q, s.config.hasGraph, wts)
      packed == PackTokens(ranked, profile.tokenBudget, s.config,
                  ScoreScale(withReranker, s.q, s.config.hasGraph).scale)
      curated == Truncate(Fallback(packed, ranked, profile.effectiveTopK),
                          profile.effectiveTopK)
  IN [s EXCEPT !.state = "done", !.engine = "replied",
               !.results = withReranker, !.profile = profile,
               !.weights = wts, !.ranked = ranked, !.packed = packed,
               !.curated = curated]

\* the engine answers with JSON, however late; searchCode ranks, packs and
\* returns
EngineReplies ==
  /\ search.state = "awaiting"
  /\ \E engineResults \in EngineResults, reranker \in {"off", "inverse"} :
       search' = SearchCodeOf(search, engineResults, reranker, weights)
  /\ UNCHANGED <<rpcVars, idxVars, runVars, srvVars, wVars>>

\* the request errors or the body is not JSON: fetchEngineResults rejects,
\* searchCode rejects, and the adapter's catch answers with an error
EngineFails ==
  /\ search.state = "awaiting"
  /\ search.engine = "pending"
  /\ \E failure \in {"error", "nonjson"} :
       search' = [search EXCEPT !.state = "rejected", !.engine = failure]
  /\ UNCHANGED <<rpcVars, idxVars, runVars, srvVars, wVars>>

\* five seconds pass without a reply: nothing in fetchEngineResults is
\* armed for it, the call stays suspended
EngineSilent ==
  /\ search.state = "awaiting"
  /\ search.engine = "pending"
  /\ search' = [search EXCEPT !.engine = "silent"]
  /\ UNCHANGED <<rpcVars, idxVars, runVars, srvVars, wVars>>

SearchNext == SearchCode \/ EngineReplies \/ EngineFails \/ EngineSilent

\* ============================================================== Part G
\* The indexer run from the command line, one run after the other, on a
\* tree that is edited between or during runs.

\* tree edits in SpecRerun
MaxEdits == 3

\* a file of the tree is created, rewritten or removed
EditTree ==
  /\ nChanges < MaxEdits
  /\ ~InSync
  /\ \E p \in Mutable :
       \/ /\ tree[p] = Absent
          /\ \E c \in Contents, m \in Mtimes :
               tree' = [tree EXCEPT ![p] = [content |-> c, mtimeMs |-> m]]
       \/ /\ tree[p] # Absent
          /\ \E c \in Contents, m \in Mtimes \ {tree[p].mtimeMs} :
               tree' = [tree EXCEPT ![p] = [content |-> c, mtimeMs |-> m]]
       \/ /\ tree[p] # Absent
          /\ tree' = [tree EXCEPT ![p] = Absent]
  /\ nChanges' = nChanges + 1
  /\ UNCHANGED <<rpcVars, srvVars, wVars, search, runVars, indexJson,
                 entriesJson, edgesJson, graphDb, torn, gen, passes, nPasses,
                 ensured, watching, useQueue, queue, timer, quiet, fired,
                 lastPass>>

\* index_cli: runIndexer(rootDir, outDir, sqlite), started once the run
\* before it has returned
RunIndexer ==
  /\ passes = {}
  /\ \E mode \in Modes :
       /\ StartPass("cli", mode)
       /\ runs' = Append(runs, [mode |-> mode, changes |-> nChanges])
  /\ UNCHANGED <<rpcVars, srvVars, wVars, search, disk, calls, engineProc, fnVars, tree, indexJson,
                 entriesJson, edgesJson, graphDb, gen, nChanges, ensured,
                 watching, useQueue, queue, timer, quiet, fired, lastPass>>

RerunNext ==
  EditTree \/ RunIndexer \/ PassWriteIndex \/ PassWriteEntries \/ PassFinish

\* ============================================================== Part H
\* The file system seen through resources/list, resources/read and the
\* file tools of the adapter.  A path is a sequence of segments and a segment
\* a sequence of chunks of characters, so that "/w2" has "/w" as a string
\* prefix without lying under it.  Callers pass absolute paths.

\* calls the client makes in SpecFiles
MaxCalls == 2

\* 50 * 1024 * 1024 bytes, in MiB
MaxMiB == 50

Cwd     == << <<"w">> >>
DataDir == << <<"w">>, <<"data">> >>
\* process.cwd(), path.resolve(DATA_DIR)
ROOTS == {Cwd, DataDir}

FileRec(mib, readable, text) ==
  [mib |-> mib, readable |-> readable, text |-> text]

\* the files on disk at start, by resolved path
Disk0 ==
  (<< <<"w">>, <<"a", ".ts">> >>        :> FileRec(1, TRUE, "a"))
  @@ (<< <<"w">>, <<"s", ".env">> >>    :> FileRec(1, TRUE, "secret"))
  @@ (<< <<"w">>, <<"S", ".PEM">> >>    :> FileRec(1, TRUE, "cert"))
  @@ (<< <<"w">>, <<"big", ".ts">> >>   :> FileRec(51, TRUE, "big"))
  @@ (<< <<"w">>, <<"lock", ".ts">> >>  :> FileRec(1, FALSE, "lock"))
  @@ (<< <<"w">>, <<"data">>, <<"i", ".json">> >> :> FileRec(1, TRUE, "index"))
  @@ (<< <<"w", "2">>, <<"x", ".ts">> >> :> FileRec(1, TRUE, "x"))
  @@ (<< <<"etc">>, <<"p", ".ts">> >>   :> FileRec(1, TRUE, "p"))
  @@ (<< <<"etc">>, <<"id", ".key">> >> :> FileRec(1, TRUE, "key"))

\* the paths a caller names: the files on disk, two missing files and a
\* path that leaves the root through ".."
CallPaths ==
  DOMAIN Disk0
    \cup {<< <<"w">>, <<"gone", ".ts">> >>,
          << <<"w">>, <<"gone", ".env">> >>,
          << <<"w">>, <<"..">>, <<"etc">>, <<"p", ".ts">> >>}

\* the directories a caller names in resources/list
CallRoots == {Cwd, DataDir, << <<"w", "2">> >>, << <<"etc">> >>}

\* path.resolve(p) of an absolute path: ".." drops the segment before it
RECURSIVE Resolve(_)
Resolve(p) ==
  IF p = <<>> THEN <<>>
  ELSE LET head == Resolve(SubSeq(p, 1, Len(p) - 1))
           last == p[Len(p)]
       IN IF last = <<"..">>
            THEN (IF head = <<>> THEN <<>> ELSE SubSeq(head, 1, Len(head) - 1))
            ELSE Append(head, last)

\* the characters of a path: "/" before each segment
RECURSIVE Chars(_)
Chars(p) == IF p = <<>> THEN <<>> ELSE <<"/">> \o Head(p) \o Chars(Tail(p))

\* a.startsWith(b) on strings
StartsWith(a, b) == Len(b) <= Len(a) /\ SubSeq(a, 1, Len(b)) = b

\* a prefix test on whole segments
WithinDir(p, dir) == Len(dir) <= Len(p) /\ SubSeq(p, 1, Len(dir)) = dir

\* ROOTS.some(r => path.resolve(p).startsWith(path.resolve(r)))
UnderRoots(p) == \E r \in ROOTS : StartsWith(Chars(Resolve(p)), Chars(Resolve(r)))

\* toLowerCase() of the chunks that occur
LowerChunk(c) ==
  CASE c = ".PEM" -> ".pem"
    [] c = "S"    -> "s"
    [] OTHER      -> c

\* path.basename(p).toLowerCase()
Basename(p) == [i \in DOMAIN p[Len(p)] |-> LowerChunk(p[Len(p)][i])]

\* fs.statSync(p) succeeds
OnDisk(d, p) == Resolve(p) \in DOMAIN d

\* allowPath(p)
AllowPath(d, p) ==
  LET basename == Basename(p)
  IN /\ basename[Len(basename)] \notin {".env", ".key", ".pem"}
     /\ ~(OnDisk(d, p) /\ d[Resolve(p)].mib > MaxMiB)

\* fs.readFileSync(p, 'utf8') returns
Readable(d, p) == OnDisk(d, p) /\ d[Resolve(p)].readable

Call(op, path, code, text, files) ==
  [op |-> op, path |-> path, code |-> code, text |-> text, files |-> files]

NoText == "none"

\* resources/read and the resources-read tool: the reply
ResourcesReadReply(op, d, p) ==
  IF ~UnderRoots(p) THEN Call(op, p, RootNotAllowed, NoText, {})
  ELSE IF ~AllowPath(d, p) THEN Call(op, p, PolicyDenied, NoText, {})
  ELSE IF Readable(d, p) THEN Call(op, p, 0, d[Resolve(p)].text, {Resolve(p)})
  ELSE Call(op, p, ReadFailure, NoText, {})

\* listFiles(root, max), max above the number of files
ListFiles(d, root) ==
  {q \in DOMAIN d : WithinDir(q, Resolve(root)) /\ AllowPath(d, q)}

\* resources/list and the resources-list tool: the reply
ResourcesListReply(op, d, root) ==
  IF ~UnderRoots(root) THEN Call(op, root, RootNotAllowed, NoText, {})
  ELSE Call(op, root, 0, NoText, ListFiles(d, root))

\* gen_patch, analyze_performance: fs.readFileSync(path.resolve(cwd, file));
\* a throw reaches the catch of handle()
ToolReadReply(op, d, p) ==
  IF Readable(d, p) THEN Call(op, p, 0, d[Resolve(p)].text, {Resolve(p)})
  ELSE Call(op, p, InternalError, NoText, {})

\* compare_versions: both files are read
CompareReply(d, pathA, pathB) ==
  IF Readable(d, pathA) /\ Readable(d, pathB)
    THEN Call("compare_versions", pathA, 0, d[Resolve(pathA)].text,
              {Resolve(pathA), Resolve(pathB)})
    ELSE Call("compare_versions", pathA, InternalError, NoText, {})

Patched == "patched"

\* apply_patch: fs.writeFileSync(abs, updated); an unreadable file throws
\* before the write
ApplyPatchDisk(d, p) ==
  IF Readable(d, p) THEN [d EXCEPT ![Resolve(p)].text = Patched] ELSE d

Answer(call) ==
  /\ Len(calls) < MaxCalls
  /\ calls' = Append(calls, call)

OtherThanFiles ==
  UNCHANGED <<rpcVars, idxVars, srvVars, wVars, search, runs, engineProc, fnVars>>

ReadResource ==
  /\ \E op \in {"resources/read", "resources-read"}, p \in CallPaths :
       Answer(ResourcesReadReply(op, disk, p))
  /\ UNCHANGED disk
  /\ OtherThanFiles

ListResources ==
  /\ \E op \in {"resources/list", "resources-list"}, root \in CallRoots :
       Answer(ResourcesListReply(op, disk, root))
  /\ UNCHANGED disk
  /\ OtherThanFiles

GenPatch ==
  /\ \E p \in CallPaths : Answer(ToolReadReply("gen_patch", disk, p))
  /\ UNCHANGED disk
  /\ OtherThanFiles

AnalyzePerformance ==
  /\ \E p \in CallPaths : Answer(ToolReadReply("analyze_performance", disk, p))
  /\ UNCHANGED disk
  /\ OtherThanFiles

CompareVersions ==
  /\ \E pathA \in CallPaths, pathB \in CallPaths :
       Answer(CompareReply(disk, pathA, pathB))
  /\ UNCHANGED disk
  /\ OtherThanFiles

ApplyPatch ==
  /\ \E p \in CallPaths :
       /\ Answer(ToolReadReply("apply_patch", disk, p))
       /\ disk' = ApplyPatchDisk(disk, p)
  /\ OtherThanFiles

\* project.addSourceFilesAtPaths([rootDir/**/*.ts, !rootDir/**/*.d.ts]): the
\* files runIndexer goes on to read
SourceFilesAt(d, rootDir) ==
  {q \in DOMAIN d : WithinDir(q, rootDir) /\ q[Len(q)][Len(q[Len(q)])] = ".ts"}

IndexEnumerate ==
  /\ Answer(Call("index", Cwd, 0, NoText, SourceFilesAt(disk, Cwd)))
  /\ UNCHANGED disk
  /\ OtherThanFiles

FilesNext ==
  \/ ReadResource \/ ListResources \/ GenPatch \/ AnalyzePerformance
  \/ CompareVersions \/ ApplyPatch \/ IndexEnumerate

\* ============================================================== Part I
\* The launcher's process: the watcher, the semantic engine it started and
\* the stdio adapter it loaded, up to process.exit.

\* startFastApi succeeds and the engine is a child process, or the launcher
\* falls back to (with fast start: begins with) the in-process server
StartEngine ==
  /\ ~exited
  /\ engineProc = "none"
  /\ engineProc' \in {"child", "server"}
  /\ UNCHANGED <<rpcVars, idxVars, srvVars, wVars, search, runs, disk, calls, fnVars>>

\* The adapter reads a shutdown request from its stdin:
\* ok(req.id, {ok: true}); process.exit(0)
ShutdownLine ==
  /\ ~exited
  /\ sent < MaxLines
  /\ sent' = sent + 1
  /\ \E id \in Ids :
       LET req == Req("json", id, "shutdown", "", "", "none")
           eff == Handle(req, "ok")
       IN /\ stdout' = stdout \o eff.resp
          /\ log' = Append(log, [req |-> req, resps |-> eff.resp])
          /\ exited' = eff.exit
  /\ UNCHANGED <<auxVars, idxVars, stdin, awaiting, pending, timers, posts>>

ShutdownNext ==
  \/ StartEngine \/ ShutdownLine \/ StartWatcher \/ FsChange \/ Tick
  \/ TimerFire \/ PassWriteIndex \/ PassWriteEntries \/ PassFinish

\* ============================================================== Part J
\* The index command run again after one of the JSON snapshots was lost or
\* left unparseable.

SnapshotFiles == {"index.json", "semantic_entries.json"}

\* Between two runs a snapshot file is deleted or truncated: JSON.parse of
\* what is left throws and the reader's catch yields []
DamageSnapshot ==
  /\ passes = {}
  /\ lastPass # 0
  /\ \E f \in SnapshotFiles \ torn :
       /\ torn' = torn \cup {f}
       /\ indexJson' = IF f = "index.json" THEN <<>> ELSE indexJson
       /\ entriesJson' = IF f = "semantic_entries.json" THEN <<>> ELSE entriesJson
  /\ UNCHANGED <<rpcVars, srvVars, wVars, search, runVars, tree, edgesJson,
                 graphDb, gen, passes, nPasses, nChanges, ensured, watching,
                 useQueue, queue, timer, quiet, fired, lastPass>>

RecoverNext == RerunNext \/ DamageSnapshot

\* ============================================================== Part K
\* chunkByTokens of the chunking indexer, one iteration of its outer loop at
\* a time.  A line is its length in characters.

\* lines of the symbol chunked in SpecChunk
MaxChunkLines == 4

\* chunking.charsPerToken of the default configuration
CharsPerToken == 4

LineLengths == {0, 3, 8}
TokenLimits == {0, 1, 2, 3}
Overlaps == {0, 1, 2, 5}
StartLines == {1, 3}

NoChunker ==
  [state |-> "idle", lines |-> <<>>, startLine |-> 0, maxTokens |-> 0,
   overlapTokens |-> 0, idx |-> 0, out |-> <<>>]

\* the inner while: end after the lines that fit were taken (0-based end)
RECURSIVE FillChunk(_, _, _, _)
FillChunk(lines, end, tokenSum, maxTokens) ==
  IF end < Len(lines)
     /\ tokenSum + TokenEstimate(lines[end + 1], CharsPerToken) <= maxTokens
    THEN FillChunk(lines, end + 1,
                   tokenSum + TokenEstimate(lines[end + 1], CharsPerToken),
                   maxTokens)
    ELSE end

\* the overlap while: back after it stepped over overlapTokens tokens
RECURSIVE StepBack(_, _, _, _, _)
StepBack(lines, idx, back, overlap, overlapTokens) ==
  IF back > idx /\ overlap < overlapTokens
    THEN StepBack(lines, idx, back - 1,
                  overlap + TokenEstimate(lines[back], CharsPerToken),
                  overlapTokens)
    ELSE back

NextIdxNoProgress(lines, idx, end, overlapTokens) ==
  IF overlapTokens > 0 THEN StepBack(lines, idx, end, 0, overlapTokens) ELSE end

\* idx after one chunk: back, or end when back has come down to idx
NextIdx(lines, idx, end, overlapTokens) ==
  IF overlapTokens > 0
    THEN LET back == StepBack(lines, idx, end, 0, overlapTokens)
         IN IF back <= idx THEN end ELSE back
    ELSE end

\* chunkByTokens is called on the lines of a symbol
ChunkStart ==
  /\ chunker.state = "idle"
  /\ \E n \in 0..MaxChunkLines, start \in StartLines, maxTokens \in TokenLimits,
        overlapTokens \in Overlaps :
       \E lines \in [1..n -> LineLengths] :
         chunker' = [state |-> "run", lines |-> lines, startLine |-> start,
                     maxTokens |-> maxTokens, overlapTokens |-> overlapTokens,
                     idx |-> 0, out |-> <<>>]
  /\ UNCHANGED <<rpcVars, idxVars, srvVars, wVars, search, runs, disk, calls,
                 engineProc, listing, spawned, patch>>

\* one pass of while (idx < lines.length): a chunk is pushed, idx moves on
ChunkStep ==
  /\ chunker.state = "run"
  /\ chunker.idx < Len(chunker.lines)
  /\ LET c    == chunker
         fill == FillChunk(c.lines, c.idx, 0, c.maxTokens)
         end  == IF fill = c.idx THEN c.idx + 1 ELSE fill
     IN chunker' = [c EXCEPT
          !.out = Append(@, [start |-> c.startLine + c.idx,
                             end |-> c.startLine + end - 1]),
          !.idx = NextIdx(c.lines, c.idx, end, c.overlapTokens)]
  /\ UNCHANGED <<rpcVars, idxVars, srvVars, wVars, search, runs, disk, calls,
                 engineProc, listing, spawned, patch>>

\* the loop condition fails: return out
ChunkReturn ==
  /\ chunker.state = "run"
  /\ chunker.idx >= Len(chunker.lines)
  /\ chunker' = [chunker EXCEPT !.state = "done"]
  /\ UNCHANGED <<rpcVars, idxVars, srvVars, wVars, search, runs, disk, calls,
                 engineProc, listing, spawned, patch>>

ChunkNext == ChunkStart \/ ChunkStep \/ ChunkReturn

\* ============================================================== Part L
\* GraphStore.listSymbols over a graph.db that runIndexer has written. The
\* source files of the project come in the order ts-morph hands them over;
\* a class is followed by all of its methods before forEachDescendant goes
\* on into the bodies, so a function declared inside a method ("nest")
\* comes after the methods that follow it in the text. Two functions can
\* each declare a function of the same name ("dup").
SymbolContents == {"fn", "cls", "nest", "dup"}

\* the projects: what the two .ts files hold, and the order of the files
SymbolTrees ==
  [Mutable -> {Absent} \cup {[content |-> c, mtimeMs |-> 1] : c \in SymbolContents}]

SourceOrders == {<<FileA, FileB>>, <<FileB, FileA>>}

ProjectFiles(t, order) ==
  LET rels == SelectSeq(order, LAMBDA p : Exists(t, p))
  IN [i \in 1..Len(rels) |-> FileMetaOf(t, AbsPath(RootDir, rels[i]))]

\* listSymbols() without a file
AllFiles == Path(<<>>, "", "")

NoListing == [state |-> "idle", file |-> AllFiles, rows |-> <<>>]

\* listSymbols(file?): SELECT ... FROM symbols without ORDER BY, a scan of
\* the table in the order of its rows
ListSymbols(db, file) ==
  IF file # AllFiles
    THEN IF \E i \in DOMAIN db.files : db.files[i] = file
           THEN LET rows == SelectSeq(db.symbols, LAMBDA r : r.file = file)
                IN [i \in DOMAIN rows |->
                      [name |-> rows[i].name, kind |-> rows[i].kind,
                       startLine |-> rows[i].startLine,
                       endLine |-> rows[i].endLine]]
           ELSE <<>>
    ELSE db.symbols

\* A full runIndexer pass over a project, for its symbols: the semantic
\* entries are written and graph.db is rewritten
IndexSymbols ==
  /\ \E t \in SymbolTrees, order \in SourceOrders :
       LET fileMetas == ProjectFiles(t, order)
       IN /\ entriesJson' = ScanEntries("full", <<>>, <<>>, fileMetas, 1)
          /\ graphDb' = WriteSQLite(graphDb, fileMetas, <<>>)
  /\ listing' = NoListing
  /\ UNCHANGED <<rpcVars, srvVars, wVars, search, runs, disk, calls, engineProc,
                 chunker, spawned, patch, tree, indexJson, edgesJson, torn,
                 gen, passes, nPasses, nChanges, ensured, watching, useQueue,
                 queue, timer, quiet, fired, lastPass>>

\* a call of listSymbols, for all files or for one
CallListSymbols ==
  /\ \E file \in {AllFiles, FileA, FileB, FileC} :
       listing' = [state |-> "done", file |-> file,
                   rows |-> ListSymbols(graphDb, file)]
  /\ UNCHANGED <<rpcVars, idxVars, srvVars, wVars, search, runs, disk, calls,
                 engineProc, chunker, spawned, patch>>

SymbolsNext == IndexSymbols \/ CallListSymbols

\* ============================================================== Part M
\* The adapter with the tools that run a command: run_tests and run_task
\* call spawnSync, which returns when the child process has exited. Until
\* then the handler, and with it the only thread of the process, stands
\* still.
MaxToolLines == 3

ToolReqs ==
  { Req("json", i, "ping", "", "", "none") : i \in {"n1", "n2"} }
  \cup { Req("json", i, "tools/call", t, "", "none") :
           i \in {"n1", "n2"}, t \in {"run_tests", "get_file"} }

\* case 'run_tests' / case 'run_task' of a request that is answered
RunsCommand(req) ==
  /\ req.form = "json"
  /\ req.msg = "none"
  /\ ~IsNotification(req)
  /\ req.method = "tools/call"
  /\ req.name = "run_tests"

\* A stdio client writes one line to the adapter's stdin.
ToolClientLine ==
  /\ sent < MaxToolLines
  /\ \E req \in ToolReqs :
       /\ stdin' = Append(stdin, req)
       /\ sent' = sent + 1
  /\ UNCHANGED <<stdout, log, awaiting, exited, pending, timers, posts, idxVars,
                 srvVars, wVars, search, runs, disk, calls, engineProc,
                 chunker, listing, spawned, patch>>

\* rl.on('line') while no handler stands in spawnSync: a run_tests call
\* starts its child and waits for it; every other line is handled as in
\* Part A.
ToolsLine ==
  /\ ~exited
  /\ spawned = 0
  /\ stdin # <<>>
  /\ LET req == Head(stdin)
         n   == Len(log) + 1
     IN IF RunsCommand(req)
          THEN /\ spawned' = n
               /\ log' = Append(log, [req |-> req, resps |-> <<>>])
               /\ UNCHANGED <<stdout, awaiting, exited>>
          ELSE \E env \in {"ok", "throw"} :
                 LET eff == OnLine(req, env)
                 IN /\ stdout' = stdout \o eff.resp
                    /\ log' = Append(log, [req |-> req, resps |-> eff.resp])
                    /\ awaiting' = IF eff.suspend THEN awaiting \cup {n}
                                   ELSE awaiting
                    /\ exited' = eff.exit
                    /\ UNCHANGED spawned
  /\ stdin' = Tail(stdin)
  /\ UNCHANGED <<sent, pending, timers, posts, idxVars, srvVars, wVars, search,
                 runs, disk, calls, engineProc, chunker, listing, patch>>

\* The child exits: spawnSync returns, run_tests returns the outcome and
\* the handler writes its response.
ChildExits ==
  /\ spawned # 0
  /\ LET r == Ok(log[spawned].req.id)
     IN /\ stdout' = Append(stdout, r)
        /\ log' = [log EXCEPT ![spawned].resps = Append(@, r)]
  /\ spawned' = 0
  /\ UNCHANGED <<stdin, awaiting, exited, sent, pending, timers, posts, idxVars,
                 srvVars, wVars, search, runs, disk, calls, engineProc,
                 chunker, listing, patch>>

ToolsNext == ToolClientLine \/ ToolsLine \/ ChildExits

\* ============================================================== Part N
\* generate_patch and apply_patch on one file. Texts are sequences of
\* characters; positions are counted from 0 as in the code.
MaxPatchCalls == 2

PatchFinds == {<<>>, <<"a">>, <<"a", "a">>}
PatchReplaces == {<<>>, <<"b", "a">>}
\* op.occurrences: 0 stands for a missing or non-positive member
PatchOccurrences == {0, 2}
PatchOps ==
  [find : PatchFinds, replace : PatchReplaces, occurrences : PatchOccurrences]
PatchOperations == UNION {[1 .. n -> PatchOps] : n \in 0 .. 2}

\* the file as it is first found
PatchFile0 == <<"a", "a", "a", "b", "a">>

NoPatch == [state |-> "idle", content |-> PatchFile0, before |-> <<>>,
            operations |-> <<>>, reply |-> <<>>, n |-> 0]

\* s.slice(from, to)
Slice(s, from, to) == SubSeq(s, from + 1, to)

\* s.indexOf(find, from), for from <= s.length
IndexOf(s, find, from) ==
  LET at == {i \in from .. (Len(s) - Len(find)) :
               Slice(s, i, i + Len(find)) = find}
  IN IF at = {} THEN -1 ELSE CHOOSE i \in at : \A j \in at : i <= j

\* a search that goes on where the match began
SearchFromMatch(idx, replace) == idx

\* idx + op.replace.length, where the search goes on
SearchFrom(idx, replace) == idx + Len(replace)

\* the while loop of applyOperations for one operation
RECURSIVE ReplaceLoop(_, _, _, _, _)
ReplaceLoop(current, op, occurrences, count, idx) ==
  IF idx # -1 /\ count < occurrences
    THEN LET next == Slice(current, 0, idx) \o op.replace
                     \o Slice(current, idx + Len(op.find), Len(current))
         IN ReplaceLoop(next, op, occurrences, count + 1,
                        IndexOf(next, op.find, SearchFrom(idx, op.replace)))
    ELSE [updated |-> current, applied |-> count]

\* applyOperations(content, operations)
RECURSIVE ApplyOperations(_, _)
ApplyOperations(content, operations) ==
  IF operations = <<>> THEN [updated |-> content, applied |-> 0]
  ELSE LET op   == Head(operations)
           occurrences == IF op.occurrences > 0 THEN op.occurrences ELSE 1
           one  == ReplaceLoop(content, op, occurrences, 0,
                               IndexOf(content, op.find, 0))
           rest == ApplyOperations(one.updated, Tail(operations))
       IN [updated |-> rest.updated, applied |-> one.applied + rest.applied]

\* generate_patch(repoRoot, filePath, operations): the file is read, the
\* previews are returned
GeneratePatch ==
  /\ patch.n < MaxPatchCalls
  /\ \E operations \in PatchOperations :
       patch' = [state |-> "generated", content |-> patch.content,
                 before |-> patch.content, operations |-> operations,
                 reply |-> [before |-> patch.content,
                            after |-> ApplyOperations(patch.content,
                                                      operations).updated],
                 n |-> patch.n + 1]
  /\ UNCHANGED <<rpcVars, idxVars, srvVars, wVars, search, runs, disk, calls,
                 engineProc, chunker, listing, spawned>>

\* apply_patch(repoRoot, filePath, operations): the file is read, written
\* with the updated text, and the counts are returned
ApplyPatchFile ==
  /\ patch.n < MaxPatchCalls
  /\ \E operations \in PatchOperations :
       LET res == ApplyOperations(patch.content, operations)
       IN patch' = [state |-> "applied", content |-> res.updated,
                    before |-> patch.content, operations |-> operations,
                    reply |-> [applied |-> res.applied,
                               total |-> Len(operations)],
                    n |-> patch.n + 1]
  /\ UNCHANGED <<rpcVars, idxVars, srvVars, wVars, search, runs, disk, calls,
                 engineProc, chunker, listing, spawned>>

PatchNext == GeneratePatch \/ ApplyPatchFile

\* ------------------------------------------------------- specifications
\* The adapter and the bridge have just started; the tree and the data
\* directory are empty and nothing has been indexed.
Init ==
  /\ stdin = <<>>
  /\ stdout = <<>>
  /\ log = <<>>
  /\ awaiting = {}
  /\ exited = FALSE
  /\ sent = 0
  /\ pending = {}
  /\ timers = <<>>
  /\ posts = <<>>
  /\ tree = [p \in Mutable |-> Absent]
  /\ indexJson = <<>>
  /\ entriesJson = <<>>
  /\ edgesJson = <<>>
  /\ graphDb = EmptyDb
  /\ torn = {}
  /\ gen = NoGen
  /\ passes = {}
  /\ nPasses = 0
  /\ nChanges = 0
  /\ ensured = FALSE
  /\ watching = FALSE
  /\ useQueue = FALSE
  /\ queue = 0
  /\ timer = -1
  /\ quiet = 0
  /\ fired = 0
  /\ lastPass = 0
  /\ orchestrator = NoOrchestrator
  /\ engine = EngineDown
  /\ answer = NoAnswer
  /\ w = DefaultWeights
  /\ weightsJson = NoFile
  /\ weights = SetWeights(DefaultWeights, DefaultWeights)
  /\ searching = 0
  /\ nFeedback = 0
  /\ ranking = NoRanking
  /\ search = NoSearch
  /\ runs = <<>>
  /\ disk = Disk0
  /\ calls = <<>>
  /\ engineProc = "none"
  /\ chunker = NoChunker
  /\ listing = NoListing
  /\ spawned = 0
  /\ patch = NoPatch

SpecAdapter == Init /\ [][AdapterNext]_vars

SpecBridge == Init /\ [][BridgeNext]_vars

SpecIndex == Init /\ [][IndexNext]_vars

SpecServe == Init /\ [][ServeNext]_vars

SpecWeights == Init /\ [][WeightsNext]_vars

SpecFeedback == Init /\ [][FeedbackNext]_vars

SpecSearch == Init /\ [][SearchNext]_vars

SpecRerun == Init /\ [][RerunNext]_vars

SpecFiles == Init /\ [][FilesNext]_vars

SpecShutdown == Init /\ [][ShutdownNext]_vars

SpecRecover == Init /\ [][RecoverNext]_vars

SpecChunk == Init /\ [][ChunkNext]_vars
SpecSymbols == Init /\ [][SymbolsNext]_vars
SpecTools == Init /\ [][ToolsNext]_vars
SpecPatch == Init /\ [][PatchNext]_vars

\* =============================================================== claims
\* ---- the stdio adapter
KnownTarget(req) ==
  /\ req.method \in Methods
  /\ req.method = "tools/call" => req.name \in ToolNames
  /\ (req.method = "prompts/call"
        \/ (req.method = "tools/call" /\ req.name = "prompts-call"))
       => req.pname \in PromptNames

ErrorCodes == {MethodNotFound, InternalError, RootNotAllowed, PolicyDenied,
               ReadFailure}

\* a line that has been read and whose handler is not suspended in an await
Handled(n) == n \in DOMAIN log /\ n \notin awaiting

\* C1: every request line that parses to an object with a non-null id
\* produces exactly one response line with the same id: a result, or an
\* error with one of the adapter's codes, -32601 when the method, tool or
\* prompt is unknown.
C1_ExactlyOneResponse ==
  \A n \in DOMAIN log :
    LET req == log[n].req
        rs  == log[n].resps
    IN (Handled(n) /\ req.form = "json" /\ ~IsNotification(req)) =>
         /\ Len(rs) = 1
         /\ rs[1].id = req.id
         /\ rs[1].kind = "result" \/ rs[1].code \in ErrorCodes
         /\ (req.msg = "none" /\ ~KnownTarget(req)) =>
              /\ rs[1].kind = "error"
              /\ rs[1].code \in {MethodNotFound, InternalError}

\* ---- the HTTP bridge
NonNotifications(items) == SelectSeq(items, LAMBDA r : ~IsNotification(r))

\* C2: the reply to an array of N requests with M notifications is 200 with
\* exactly N-M responses, in the order of the requests, each carrying the id
\* of its request.
C2_BatchReply ==
  \A p \in DOMAIN posts :
    (posts[p].isArray /\ posts[p].reply.status # 0) =>
      LET want == NonNotifications(posts[p].items)
          body == posts[p].reply.body
      IN /\ posts[p].reply.status = 200
         /\ Len(body) = Len(want)
         /\ \A i \in DOMAIN body : body[i].id = want[i].id

\* C3: when the 30 s timer of a request fires while its entry is pending,
\* the entry is removed and the request is answered with a JSON-RPC error
\* of code -32000.
C3_TimeoutIsRpcError ==
  \A p \in DOMAIN posts : \A i \in DOMAIN posts[p].slots :
    posts[p].slots[i].st = "rejected" =>
      /\ \A e \in pending : ~(e.post = p /\ e.idx = i)
      /\ \E k \in DOMAIN posts[p].reply.body :
           /\ posts[p].reply.body[k].id = posts[p].items[i].id
           /\ posts[p].reply.body[k].kind = "error"
           /\ posts[p].reply.body[k].code = InternalError

\* C4: a message without an id never produces a response line from the
\* adapter; the bridge forwards it without a pending entry or a timer and
\* answers a single notification with 204.
C4_NotificationsSilent ==
  /\ \A n \in DOMAIN log :
       IsNotification(log[n].req) => log[n].resps = <<>>
  /\ \A p \in DOMAIN posts : \A i \in DOMAIN posts[p].items :
       IsNotification(posts[p].items[i]) =>
         /\ \A e \in pending : ~(e.post = p /\ e.idx = i)
         /\ \A k \in DOMAIN timers : ~(timers[k].post = p /\ timers[k].idx = i)
         /\ ~posts[p].isArray => posts[p].reply.status = 204

\* ---- the indexer
IndexPaths == { indexJson[i].path : i \in DOMAIN indexJson }
DbPaths == { graphDb.files[i] : i \in DOMAIN graphDb.files }

\* a pass has finished and none is running
AfterPass == passes = {} /\ lastPass # 0

\* C5: after every pass, the File paths of index.json are the file paths of
\* graph.db, and every SemanticEntry's file is one of them.
C5_StoresAgree ==
  AfterPass =>
    /\ IndexPaths = DbPaths
    /\ \A i \in DOMAIN entriesJson : entriesJson[i].file \in IndexPaths

EdgesSound(edges, files) ==
  /\ \A i \in DOMAIN edges : edges[i].from \in files /\ edges[i].to \in files
  /\ \A i, k \in DOMAIN edges :
       (edges[i].from = edges[k].from /\ edges[i].to = edges[k].to) => i = k
  /\ \A i \in DOMAIN edges : edges[i].from # edges[i].to

C7_SymbolFileIsPath ==
  \A i \in DOMAIN indexJson : \A k \in DOMAIN indexJson[i].symbols :
    indexJson[i].symbols[k].file = indexJson[i].path

\* C8: at every moment a reader finds index.json, semantic_entries.json and
\* graph.db complete and written by the same pass (or all three by none).
C8_ReaderSeesOneSnapshot ==
  /\ torn = {}
  /\ gen.index = gen.entries
  /\ gen.entries = gen.db

\* C9: at most one runIndexer execution is in progress, and while one runs
\* at most one follow-up is waiting.
C9_OnePassAtATime ==
  /\ Cardinality(passes) <= 1
  /\ passes # {} => queue <= 1

\* C10: a burst of events, each less than 500 ms after the one before,
\* starts exactly one index job, 500 ms after its last event: none earlier,
\* one from then on.
C10_OneJobPerBurst ==
  nChanges > 0 =>
    /\ fired <= 1
    /\ quiet < DebounceMs => fired = 0
    /\ quiet > DebounceMs => fired = 1

\* two events formed one burst and its single job has started
C10_Witness ==
  /\ nChanges = 2
  /\ ~ensured
  /\ nPasses + queue = 1
  /\ fired = 1
  /\ quiet = DebounceMs

\* ---- the readers of the index
\* C11: once an index pass has completed, every later get_file and search
\* is answered from the outputs on disk, not from an earlier snapshot.
C11_AnswersAreFresh ==
  answer.afterPass => answer.got = answer.disk


\* C12: after any sequence of feedback calls from the default weights, each
\* of the four weights lies in [0,1] and they sum to 1, up to the rounding of
\* the four quotients (half a part each).
C12_WeightsNormalised ==
  /\ \A f \in DOMAIN w : w[f] >= 0 /\ w[f] <= Unit
  /\ Sum(w) - Unit \in -2 .. 2

\* a run of feedback has driven semantic and lexical into the clamp at 0
C12_Witness == w.semantic = 0 /\ w.lexical = 0 /\ weightsJson = <<w>>

\* the nudge the specification describes: semantic and lexical move in
\* opposite directions
Nudged(x, kind) ==
  LET semantic == Clamp01(x.semantic +
                    (IF kind = "up" THEN Unit \div 100 ELSE -(Unit \div 100)))
      lexical  == Clamp01(x.lexical +
                    (IF kind = "up" THEN -(Unit \div 200) ELSE Unit \div 200))
      nudged   == [x EXCEPT !.semantic = semantic, !.lexical = lexical]
  IN DivideBy(nudged, Sum(nudged))

\* C13: a feedback call adds 0.01 to semantic and subtracts 0.005 from
\* lexical when up, subtracts 0.01 from semantic and adds 0.005 to lexical
\* when down, clamps both, divides the four components by their sum and
\* writes the result to weights.json.
C13_FeedbackNudges ==
  [][\A kind \in Kinds :
       Submit(kind) => w' = Nudged(w, kind) /\ weightsJson' = <<w'>>]_vars


\* C14: every search_code is ranked with the weights the WeightManager holds
\* at that moment (normalised by set_weights), in any order of
\* submit_feedback, get_weights and search_code calls.
C14_SearchUsesHeldWeights ==
  ranking.ranked => ranking.used = SetWeights(ranking.used, ranking.held)


\* C15: for a requested topK k >= 1 searchCode returns at most effectiveTopK
\* results and effectiveTopK <= k; for k = 0 effectiveTopK is the topK of the
\* intent's preset (5 for a general query).
C15_TopKBound ==
  search.state = "done" =>
    LET eff == search.profile.effectiveTopK
        presets == {Keywords[n] : n \in DOMAIN Keywords}
        PresetTopK == IF search.profile.intent = "general" THEN 5
                      ELSE (CHOOSE c \in presets :
                              c.intent = search.profile.intent).topK
    IN /\ search.topK >= 1 => Len(search.curated) <= eff /\ eff <= search.topK
       /\ search.topK = 0 => eff = PresetTopK

\* three results ranked, two requested, two returned
C15_Witness ==
  /\ search.state = "done"
  /\ search.topK = 2
  /\ Len(search.ranked) = 3
  /\ Len(search.packed) = 3
  /\ Len(search.curated) = 2

\* the hybrid score of result r as C16 states it, over the call's denominator
HybridScore(r, s) ==
  LET T == Max(1, Len(s.q))
      degs == {FileDegree(s.results[i].file) : i \in DOMAIN s.results}
      D == IF s.config.hasGraph /\ \E d \in degs : d > 1
             THEN CHOOSE d \in degs : \A e \in degs : e <= d
             ELSE 1
      found == {i \in DOMAIN s.q : Includes(r.snippet, Lower(s.q[i]))}
      reranker == IF r.rerankerScore = -1 THEN r.score ELSE r.rerankerScore
  IN s.weights.semantic * (r.score * T * D)
       + s.weights.lexical * (Cardinality(found) * ScoreUnit * D)
       + s.weights.graph *
           (IF s.config.hasGraph THEN FileDegree(r.file) * ScoreUnit * T ELSE 0)
       + s.weights.reranker * (reranker * T * D)

C17_SecondFromOtherFile ==
  (search.state = "done" /\ search.config.useMMR
     /\ search.config.mmrLambda < 10 /\ Len(search.packed) >= 2) =>
    LET first == search.packed[1]
        left == search.profile.tokenBudget
                  - TokenEstimate(first.chars, search.config.charsPerToken)
        Viable(c) ==
          /\ c.id # first.id
          /\ c.file # first.file
          /\ TokenEstimate(c.chars, search.config.charsPerToken) <= left
    IN (\E i \in DOMAIN search.ranked : Viable(search.ranked[i]))
         => search.packed[2].file # first.file

\* C18: whenever the engine returns at least one candidate searchCode returns
\* a non-empty result, and if packing selects nothing the result is the first
\* effectiveTopK ranked results.
C18_NeverEmpty ==
  (search.state = "done" /\ search.results # <<>>) =>
    /\ search.curated # <<>>
    /\ search.packed = <<>> =>
         search.curated =
           SubSeq(search.ranked, 1,
                  Min(Len(search.ranked), search.profile.effectiveTopK))

\* no candidate fits the token budget and the fallback answers
C18_Witness ==
  /\ search.state = "done"
  /\ Len(search.results) = 1
  /\ search.packed = <<>>
  /\ Len(search.curated) = 1

\* C19: when the engine request fails (connection error, non-JSON body, no
\* reply within 5 s) search_code completes with a successful empty result.
C19_EngineFailureIsEmptyResult ==
  search.engine \in {"error", "nonjson", "silent"} =>
    search.state = "done" /\ search.curated = <<>>


\* the entries of one file among a pass's or a snapshot's entries
EntriesOfFile(entries, file) == SelectSeq(entries, LAMBDA e : e.file = file)

\* C20: an incremental pass emits, for a file whose mtimeMs equals the
\* record of the index.json it read, the entries semantic_entries.json held
\* for that file, and for any other file the entries derived from the file's
\* current content.
C20_IncrementalReuse ==
  [][\A p \in passes' \ passes :
       (p.pc = "w_index" /\ p.mode = "incremental") =>
         \A i \in DOMAIN p.fileMetas :
           LET f == p.fileMetas[i]
               now == FileState(tree, f.path)
               mine == EntriesOfFile(p.entries, f.path)
           IN IF \E j \in DOMAIN indexJson :
                   indexJson[j].path = f.path /\ indexJson[j].mtimeMs = now.mtimeMs
                THEN mine = EntriesOfFile(entriesJson, f.path)
                ELSE /\ Len(mine) = Len(DeclsOf(now.content))
                     /\ \A k \in DOMAIN mine :
                          /\ mine[k].text = now.content
                          /\ mine[k].symbol = f.symbols[k].name
                          /\ mine[k].id = <<f.path, f.symbols[k].name>>]_vars

\* the second pass, incremental, has scanned and not yet written: a.ts is
\* as the first pass recorded it and keeps its entries, b.ts is new
C20_Witness ==
  \E p \in passes :
    /\ p.pc = "w_index" /\ p.mode = "incremental" /\ p.id = 2
    /\ gen.index = 1 /\ gen.entries = 1
    /\ \E j \in DOMAIN indexJson :
         /\ indexJson[j].path = FileA
         /\ indexJson[j].mtimeMs = tree[FileA].mtimeMs
    /\ EntriesOfFile(entriesJson, FileA) # <<>>
    /\ EntriesOfFile(p.entries, FileA) = EntriesOfFile(entriesJson, FileA)
    /\ \A j \in DOMAIN indexJson : indexJson[j].path # FileB
    /\ EntriesOfFile(p.entries, FileB) # <<>>


\* the rows of graph.db: files and symbols with the ids their order gives
\* them, edges as a set
DbRows(db) ==
  [files |-> db.files, symbols |-> db.symbols,
   edges |-> {db.edges[i] : i \in DOMAIN db.edges}]

\* the run in progress is the second of two runs in one mode over a tree
\* that has not changed since the first began
SecondRun(p) ==
  /\ Len(runs) >= 2
  /\ p.id = Len(runs)
  /\ runs[p.id].mode = runs[p.id - 1].mode
  /\ runs[p.id - 1].changes = nChanges

\* C21: the second of two runs in a row over an unchanged tree, both full or
\* both incremental, leaves index.json and semantic_entries.json with the
\* contents and graph.db with the rows the first run left.
C21_RerunChangesNothing ==
  [][\A p \in passes :
       (SecondRun(p) /\ nChanges' = nChanges) =>
         /\ indexJson' = indexJson
         /\ entriesJson' = entriesJson
         /\ DbRows(graphDb') = DbRows(graphDb)]_vars

\* two incremental runs over one tree have finished, with entries and edges
C21_Witness ==
  /\ passes = {} /\ Len(runs) = 2 /\ lastPass = 2
  /\ runs[1].mode = "incremental" /\ runs[2].mode = "incremental"
  /\ runs[1].changes = nChanges
  /\ gen = [index |-> 2, entries |-> 2, db |-> 2]
  /\ entriesJson # <<>>
  /\ graphDb.edges # <<>>

\* ---- resources and file tools
\* p lies in one of the allowed roots
Contained(p) == \E r \in ROOTS : WithinDir(Resolve(p), Resolve(r))

ReadOps == {"resources/read", "resources-read"}

\* C22: resources/read and the resources-read tool answer -32001 for a path
\* outside every root, else -32002 for a path the policy denies, else -32003
\* for a path that cannot be read, and the file's text otherwise.
C22_ReadChecksInOrder ==
  \A i \in DOMAIN calls :
    LET c == calls[i]
    IN c.op \in ReadOps =>
         c.code = (IF ~Contained(c.path) THEN RootNotAllowed
                   ELSE IF ~AllowPath(disk, c.path) THEN PolicyDenied
                   ELSE IF ~Readable(disk, c.path) THEN ReadFailure
                   ELSE 0)

\* C23: every file an operation indexes, lists, reads or writes lies in an
\* allowed root and passes the policy filter.
C23_PolicyAtEveryBoundary ==
  /\ \A i \in DOMAIN calls :
       calls[i].code = 0 =>
         \A q \in calls[i].files : Contained(q) /\ AllowPath(disk, q)
  /\ \A q \in DOMAIN disk :
       disk[q] # Disk0[q] => Contained(q) /\ AllowPath(disk, q)

\* ---- the launcher's process
\* C24: once the server has exited on a shutdown request, the response for
\* the request is on stdout, no debounced index job is left undone and the
\* semantic engine's child process is not running.
C24_ShutdownSequence ==
  exited =>
    /\ stdout # <<>>
    /\ stdout[Len(stdout)] = Ok(log[Len(log)].req.id)
    /\ timer = -1
    /\ engineProc # "child"

\* ---- the bridge under concurrent requests
\* the line of the child's stdin that carries element i of post n
RECURSIVE LineOf(_, _)
LineOf(n, i) == IF n = 1 THEN i ELSE Len(posts[n - 1].items) + LineOf(n - 1, i)

\* C25: whenever an HTTP caller's request is resolved with a response, that
\* response is one the child wrote for the caller's own request, also while
\* another request with the same id (1 and 1, or 1 and "1") is in flight.
C25_OwnResponse ==
  \A n \in DOMAIN posts : \A i \in DOMAIN posts[n].slots :
    posts[n].slots[i].st = "value" =>
      /\ LineOf(n, i) <= Len(log)
      /\ \E j \in DOMAIN log[LineOf(n, i)].resps :
           log[LineOf(n, i)].resps[j] = posts[n].slots[i].resp

\* the 30 s timer armed for element i of post n has not fired yet
Armed(n, i) == \E k \in DOMAIN timers : timers[k].post = n /\ timers[k].idx = i

\* C26: by the time the 30 s timers of a post's requests have fired, the
\* post has its HTTP reply, the child's responses or the timeout error; after
\* that nothing is left that could answer it.
C26_RepliedOnceTimersFired ==
  \A n \in DOMAIN posts :
    (\A i \in DOMAIN posts[n].items : ~Armed(n, i)) => posts[n].reply.status # 0

\* C28: an entry of the pending map is less than 30 s old: the timer armed
\* when it was inserted has not fired yet.
C28_PendingEntriesYoung ==
  \A e \in pending : Armed(e.post, e.idx)

\* a timer has fired on an entry and rejected its request while a younger
\* entry is still in the map
C28_Witness ==
  /\ pending # {}
  /\ \E n \in DOMAIN posts : \E i \in DOMAIN posts[n].slots :
       posts[n].slots[i].st = "rejected"

\* ---- the stores once the tree is at rest
\* no change waits in the debounce timer or in the queue, no pass runs, and
\* the watcher has started at least one
Settled ==
  /\ watching
  /\ fired >= 1
  /\ timer = -1
  /\ queue = 0
  /\ passes = {}
  /\ lastPass # 0

\* C27: once the changes have stopped and the passes have finished,
\* index.json holds the FileMeta of the tree's files, semantic_entries.json
\* the entries derived from their content, and graph.db their file and symbol
\* rows.
C27_StoresDescribeFinalTree ==
  Settled =>
    LET fileMetas == ScanFiles(tree, TsFiles(tree), 1)
        db == WriteSQLite(graphDb, fileMetas, <<>>)
    IN /\ indexJson = fileMetas
       /\ entriesJson = ScanEntries("full", <<>>, <<>>, fileMetas, 1)
       /\ graphDb.files = db.files
       /\ graphDb.symbols = db.symbols

\* ---- incremental runs over a damaged snapshot
\* C29: an incremental pass that finds index.json or semantic_entries.json
\* missing or unparseable emits, for every file, the entries derived from
\* the file's current content.
C29_DamagedSnapshotMeansFullRebuild ==
  [][\A p \in passes' \ passes :
       (p.pc = "w_index" /\ p.mode = "incremental" /\ torn # {}) =>
         /\ p.fileMetas = ScanFiles(tree, TsFiles(tree), 1)
         /\ p.entries = ScanEntries("full", <<>>, <<>>, p.fileMetas, 1)]_vars

\* ---- entries and symbols
\* entry e lies within a symbol of its name in the File record of its file
WithinOwnSymbol(e) ==
  \E i \in DOMAIN indexJson :
    /\ indexJson[i].path = e.file
    /\ \E k \in DOMAIN indexJson[i].symbols :
         LET sym == indexJson[i].symbols[k]
         IN /\ sym.name = e.symbol
            /\ sym.startLine <= e.startLine
            /\ e.endLine <= sym.endLine

\* C30: after a pass, full or incremental, every SemanticEntry lies within
\* the line range of a Symbol of its name in the File record it references.
C30_EntriesWithinSymbols ==
  AfterPass => \A n \in DOMAIN entriesJson : WithinOwnSymbol(entriesJson[n])

\* ---- chunkByTokens
\* the estimated tokens of lines a..b (1-based, counted from the symbol's
\* first line)
RECURSIVE TokenSum(_, _, _)
TokenSum(lines, a, b) ==
  IF a > b THEN 0
  ELSE TokenEstimate(lines[a], CharsPerToken) + TokenSum(lines, a + 1, b)

\* C31: every pass of the loop moves idx forward, so the loop ends; each
\* chunk holds at least one line and starts after the one before it, the
\* chunks of a finished call cover every line, and a chunk of several lines
\* is estimated at no more than the token limit.
C31_ChunksAdvanceAndCover ==
  LET c == chunker
      n == Len(c.lines)
      first == c.startLine
  IN /\ c.idx <= n
     /\ Len(c.out) <= c.idx
     /\ \A k \in DOMAIN c.out :
          /\ first <= c.out[k].start
          /\ c.out[k].start <= c.out[k].end
          /\ c.out[k].end <= first + n - 1
          /\ k > 1 => c.out[k - 1].start < c.out[k].start
          /\ k > 1 => c.out[k].start <= c.out[k - 1].end + 1
          /\ c.out[k].start < c.out[k].end =>
               TokenSum(c.lines, c.out[k].start - first + 1,
                        c.out[k].end - first + 1) <= c.maxTokens
     /\ (c.state = "done" /\ n > 0) =>
          /\ c.out # <<>>
          /\ c.out[1].start = first
          /\ c.out[Len(c.out)].end = first + n - 1

\* a finished call with overlap that produced overlapping chunks, one of
\* them of several lines
C31_Witness ==
  /\ chunker.state = "done"
  /\ chunker.overlapTokens > 0
  /\ Len(chunker.out) >= 3
  /\ \E k \in DOMAIN chunker.out :
       /\ k > 1
       /\ chunker.out[k].start <= chunker.out[k - 1].end
       /\ chunker.out[k].start < chunker.out[k].end

\* ---- ranking, ties and score ranges
\* the place of a file name in the order of strings
FileRank(file) ==
  CASE file = "a.ts" -> 1 [] file = "b.ts" -> 2 [] file = "c.ts" -> 3

\* C32: of two ranked candidates with equal composite scores, the one with
\* the higher engine score comes first, and with equal engine scores the one
\* whose file sorts first (the model's candidates carry no startLine; no two
\* of one file have the same engine score).
C32_TiesBrokenBySemanticThenFile ==
  search.state = "done" =>
    \A i, j \in DOMAIN search.ranked :
      (i < j /\ search.ranked[i].score = search.ranked[j].score) =>
        LET a == search.results[search.ranked[i].id]
            b == search.results[search.ranked[j].id]
        IN \/ a.score > b.score
           \/ a.score = b.score /\ FileRank(a.file) <= FileRank(b.file)

\* C33: the semantic signal of every candidate and every composite score
\* lie in [0,1], whatever score the engine returned (composites up to the
\* rounding of the normalised weights' sum).
C33_ScoresInUnitRange ==
  search.state = "done" =>
    LET scale == ScoreScale(search.results, search.q, search.config.hasGraph).scale
        total == search.weights.semantic + search.weights.lexical
                   + search.weights.graph + search.weights.reranker
    IN \A i \in DOMAIN search.ranked :
         /\ search.ranked[i].score >= 0
         /\ search.ranked[i].score * Unit <= scale * total

\* C34: the list searchCode returns is in non-increasing composite-score
\* order, and no packed result left out by the clamp to effectiveTopK scores
\* higher than one that was kept.
C34_ReturnedInScoreOrder ==
  search.state = "done" =>
    LET kept == {search.curated[i].id : i \in DOMAIN search.curated}
    IN /\ \A i, j \in DOMAIN search.curated :
            i < j => search.curated[i].score >= search.curated[j].score
       /\ \A i \in DOMAIN search.packed, j \in DOMAIN search.curated :
            search.packed[i].id \notin kept =>
              search.packed[i].score <= search.curated[j].score

\* ---- packing
\* C35: what pack_tokens returns, greedy or MMR, consists of results of its
\* input, none of them twice, and their estimated token costs,
\* max(1, ceil(length / charsPerToken)) each, add up to no more than the
\* budget.
C35_PackedWithinBudget ==
  search.state = "done" =>
    LET packed == search.packed
        cpt == search.config.charsPerToken
        Cost(r) == IF r.chars = 0 THEN 1 ELSE (r.chars + cpt - 1) \div cpt
        RECURSIVE Total(_)
        Total(i) == IF i = 0 THEN 0 ELSE Cost(packed[i]) + Total(i - 1)
    IN /\ \A i \in DOMAIN packed :
            \E j \in DOMAIN search.ranked : search.ranked[j] = packed[i]
       /\ \A i, j \in DOMAIN packed : i # j => packed[i].id # packed[j].id
       /\ Total(Len(packed)) <= search.profile.tokenBudget

\* a packing that took two results and left one out for its cost
C35_Witness ==
  /\ search.state = "done"
  /\ Len(search.packed) = 2
  /\ Len(search.ranked) = 3
  /\ \E j \in DOMAIN search.ranked :
       /\ \A i \in DOMAIN search.packed : search.packed[i].id # search.ranked[j].id
       /\ search.ranked[j].chars > 4 * search.profile.tokenBudget - 20

\* ---- context profile
\* C36: the profile of a query is that of the first entry of KEYWORDS one of
\* whose patterns matches it, and general with budget 600 and topK 5 when none
\* does; for every requested topK 1 <= effectiveTopK <= preset.topK, and
\* effectiveTopK = min(preset.topK, requested) when requested >= 1.
C36_ProfileOfFirstMatch ==
  search.state = "done" =>
    LET p == search.profile
        matching == {n \in DOMAIN Keywords :
                       \E i \in DOMAIN search.q : search.q[i] \in Keywords[n].words}
        preset == IF matching = {}
                    THEN [intent |-> "general", budget |-> 600, topK |-> 5]
                    ELSE LET n == CHOOSE k \in matching : \A m \in matching : k <= m
                         IN [intent |-> Keywords[n].intent,
                             budget |-> Keywords[n].budget,
                             topK |-> Keywords[n].topK]
    IN /\ p.intent = preset.intent
       /\ p.tokenBudget = preset.budget
       /\ 1 <= p.effectiveTopK
       /\ p.effectiveTopK <= preset.topK
       /\ search.topK >= 1 => p.effectiveTopK = Min(preset.topK, search.topK)

\* a query matching the patterns of two intents, with more results requested
\* than the preset allows
C36_Witness ==
  /\ search.state = "done"
  /\ search.q = <<"docs", "test">>
  /\ search.topK = 9
  /\ search.profile.intent = "test"
  /\ search.profile.effectiveTopK = 6

\* ---- listSymbols
\* C37: the rows listSymbols returns are sorted by (file, startLine), for all
\* files and for one file, whatever order the indexer inserted them in.
C37_ListedByFileAndLine ==
  listing.state = "done" =>
    LET rows == listing.rows
        Rank(p) == CHOOSE n \in DOMAIN PathOrder : PathOrder[n] = p
        Before(a, b) ==
          IF listing.file = AllFiles
            THEN \/ Rank(a.file) < Rank(b.file)
                 \/ a.file = b.file /\ a.startLine <= b.startLine
            ELSE a.startLine <= b.startLine
    IN \A i, j \in DOMAIN rows : i < j => Before(rows[i], rows[j])

\* ---- tools that run a command
\* C38: while a run_tests or run_task call is in progress the server still
\* reads the requests that arrive: with a line waiting on stdin, the line
\* handler can run.
C38_ReadsWhileToolRuns ==
  (spawned # 0 /\ stdin # <<>> /\ ~exited) => ENABLED ToolsLine

\* ---- patches
\* the text with at most k occurrences of find replaced, read from left to
\* right: a match is replaced and the reading goes on behind it
RECURSIVE ReplaceLeftmost(_, _, _, _)
ReplaceLeftmost(text, find, replace, k) ==
  IF k = 0 THEN [text |-> text, made |-> 0]
  ELSE IF Len(text) >= Len(find) /\ SubSeq(text, 1, Len(find)) = find
    THEN LET r == ReplaceLeftmost(SubSeq(text, Len(find) + 1, Len(text)),
                                  find, replace, k - 1)
         IN [text |-> replace \o r.text, made |-> r.made + 1]
  ELSE IF text = <<>> THEN [text |-> <<>>, made |-> 0]
  ELSE LET r == ReplaceLeftmost(Tail(text), find, replace, k)
       IN [text |-> <<Head(text)>> \o r.text, made |-> r.made]

RECURSIVE PatchedText(_, _)
PatchedText(text, operations) ==
  IF operations = <<>> THEN [text |-> text, made |-> 0]
  ELSE LET op == Head(operations)
           r  == ReplaceLeftmost(text, op.find, op.replace,
                                 IF op.occurrences = 0 THEN 1
                                 ELSE op.occurrences)
           t  == PatchedText(r.text, Tail(operations))
       IN [text |-> t.text, made |-> r.made + t.made]

\* C39: gen_patch leaves the file as it was and returns the previews;
\* apply_patch leaves the file with, operation by operation, at most
\* occurrences (default 1) leftmost occurrences of find replaced, inserted
\* text not searched again, and reports the number of replacements made as
\* applied and the number of operations as total.
C39_PatchIsLiteralReplace ==
  LET want == PatchedText(patch.before, patch.operations)
  IN /\ patch.state = "generated" =>
          /\ patch.content = patch.before
          /\ patch.reply = [before |-> patch.before, after |-> want.text]
     /\ patch.state = "applied" =>
          /\ patch.content = want.text
          /\ patch.reply = [applied |-> want.made,
                            total |-> Len(patch.operations)]

\* "aa" deleted once, then "a" replaced by "ba" twice, in "aaaba": the
\* second operation works on the text the first one left, and its
\* replacement holds its find
C39_Witness ==
  /\ patch.state = "applied"
  /\ patch.before = PatchFile0
  /\ patch.operations =
       << [find |-> <<"a", "a">>, replace |-> <<>>, occurrences |-> 0],
          [find |-> <<"a">>, replace |-> <<"b", "a">>, occurrences |-> 2] >>
  /\ patch.content = <<"b", "a", "b", "b", "a">>
  /\ patch.reply.applied = 3

\* ---- entry ids
\* C40: no two semantic entries that one index pass writes have the same
\* id, whatever symbols the files hold.
C40_EntryIdsUnique ==
  \A i, j \in DOMAIN entriesJson :
    i # j => entriesJson[i].id # entriesJson[j].id

====
